---- MODULE Spec2Model ----
(***************************************************************************)
(* A model of the read-through mirror engine of mcim-api: the document     *)
(* store lookups of the Modrinth and CurseForge routes, the backfill       *)
(* queues (Redis sets), the response constructors, the response cache     *)
(* decorator, the watcher of the configuration file with its callbacks,    *)
(* and the sync functions of the worker.                                   *)
(*                                                                         *)
(* Keys are sequences of one-character strings, so that the shape checks   *)
(* of the queue functions (re.match on a key) are computed character by    *)
(* character.  A Redis set is a bag: SADD adds the members that the set    *)
(* does not hold yet, and a claim that a key is held at most once is a     *)
(* statement about the bag's counts.                                       *)
(***************************************************************************)
EXTENDS Integers, Sequences, FiniteSets, Bags, TLC

VARIABLES
    store,          \* the document store: one sequence of documents per collection
    queue,          \* the sync-queue Redis database: queue name -> bag of members
    queue_up,       \* whether the sync-queue Redis backend answers
    cache,          \* the info-cache Redis database: key -> [value, ex] (absent keys are not in the domain)
    enabled,        \* _cache_instance.enabled
    now,            \* wall clock, in seconds
    task,           \* the request-handling tasks: position, request, response
    written,        \* history: for each cache key, the handler response its entry was written from
    app,            \* the application process: "stopped" or "running"
    config,         \* config_manager.mcim_config: the loaded MCIM configuration
    defaults,       \* the default headers dicts of the response constructors
    imported,       \* the configuration the modules were imported with
    config_file,    \* the content of the MCIM configuration file
    watcher,        \* the ConfigWatcher thread: its position and what it has read
    callback,       \* the threads started for on_mcim_config_change, by thread number
    app_mcim_config,\* the global mcim_config of the app module
    sync            \* the sync worker: the running sync function and its upstream requests

\* the configuration file, its watcher, the callback threads and the sync worker
background == <<config_file, watcher, callback, app_mcim_config, sync>>

vars ==
    <<store, queue, queue_up, cache, enabled, now, task, written, app, config, defaults,
      imported, background>>

----------------------------------------------------------------------------
(* Bounds of the model *)

\* the longest list of keys a batch request carries
MaxReqLen == 2
\* how many times the clock advances
MaxTicks == 2

----------------------------------------------------------------------------
(* Program constants *)

\* re.match(r"[a-zA-Z0-9]{8}", version_id)
VERSION_ID_LEN == 8
\* r"[a-zA-Z0-9]{40}" if algorithm == "sha1"
SHA1_LEN == 40
\* else r"[a-zA-Z0-9]{128}"
SHA512_LEN == 128
\* Modrinth.project: int = 86400
EXPIRE_MODRINTH_PROJECT == 86400
\* Curseforge.mod: int = 86400
EXPIRE_CURSEFORGE_MOD == 86400
\* UncachedResponse(status_code: int = 404)
HTTP_NOT_FOUND == 404
\* TrustableResponse(status_code: int = 200), and the status BaseResponse tests
HTTP_OK == 200
\* the wrapper caches no result with status_code >= 400
HTTP_ERROR_FROM == 400

----------------------------------------------------------------------------
(* Characters and keys *)

\* the characters [a-zA-Z0-9] that occur in the model's keys
AlnumChars == {"A", "B", "a", "b", "0", "1"}

\* a key of n times the character c
Rep(c, n) == [i \in 1..n |-> c]

\* re.match(r"[a-zA-Z0-9]{n}", s): the pattern is matched at the start of s
\* and the match need not reach the end of s
re_match(n, s) == Len(s) >= n /\ \A i \in 1..n : s[i] \in AlnumChars

\* the elements of a sequence
Range(s) == {s[i] : i \in 1..Len(s)}

\* the sequences over S of length at most n
SeqUpTo(S, n) == UNION {[1..k -> S] : k \in 0..n}

\* list(set(a) - set(b)): Python gives the members in an order of its own; the
\* model lists them in the order of their first occurrence in a
RECURSIVE Dedup(_)
Dedup(s) ==
    IF s = <<>> THEN <<>>
    ELSE LET r == Dedup(SubSeq(s, 1, Len(s) - 1))
             x == s[Len(s)]
         IN IF x \in Range(r) THEN r ELSE Append(r, x)

\* a variant that subtracts nothing
list_keep_all(a, B) == Dedup(a)
list_set_minus(a, B) == Dedup(SelectSeq(a, LAMBDA x : x \notin B))

----------------------------------------------------------------------------
(* The document store *)

\* Modrinth projects: id, slug and the time of the last synchronisation
ProjectDoc(id, slug, at) == [id |-> id, slug |-> slug, sync_at |-> at]
\* Modrinth versions
VersionDoc(id, project_id) == [id |-> id, project_id |-> project_id]
\* Modrinth files: the two content hashes and the owning version
FileDoc(sha1, sha512, version_id) ==
    [hashes |-> [sha1 |-> sha1, sha512 |-> sha512], version_id |-> version_id]
\* a Modrinth version together with the files it lists, the primary one first
VersionFilesDoc(id, project_id, files) ==
    [id |-> id, project_id |-> project_id,
     files |-> [i \in 1..Len(files) |-> [hashes |-> files[i].hashes]]]
\* CurseForge mods
ModDoc(id, at) == [id |-> id, sync_at |-> at]
\* CurseForge files
CFFileDoc(id, modId) == [id |-> id, modId |-> modId]
\* CurseForge fingerprints, each with the file it identifies
FingerprintDoc(id, fileId) == [id |-> id, file |-> [id |-> fileId]]

\* the keys of the model
V1 == Rep("A", VERSION_ID_LEN)
V2 == Rep("B", VERSION_ID_LEN)
\* a version id that is too short, and one that is too long
VShort == Rep("A", VERSION_ID_LEN - 1)
VLong == Rep("A", VERSION_ID_LEN + 1)
\* a key of the right length with characters outside [a-zA-Z0-9]
VBad == Rep("-", VERSION_ID_LEN)
H1Sha1 == Rep("a", SHA1_LEN)
H1Sha512 == Rep("a", SHA512_LEN)
H2Sha1 == Rep("b", SHA1_LEN)
H2Sha512 == Rep("b", SHA512_LEN)
HBad == Rep("-", SHA1_LEN)

\* the documents the upstream providers have, in the order the worker stores them
ProjectPool == << ProjectDoc("PA", "sa", 0), ProjectDoc("PB", "sb", 0) >>
VersionPool == << VersionDoc(V1, "PA"), VersionDoc(V2, "PB") >>
FilePool == << FileDoc(H1Sha1, H1Sha512, V1), FileDoc(H2Sha1, H2Sha512, V2) >>
ModPool == << ModDoc(30001, 0), ModDoc(30002, 0) >>
CFFilePool == << CFFileDoc(530001, 30001), CFFileDoc(530002, 30002) >>
FingerprintPool == << FingerprintDoc(11, 530001), FingerprintDoc(12, 530002) >>

\* the keys clients ask for
ProjectKeys == {"PA", "PB", "sa"}
VersionKeys == {V1, V2, VShort, VLong}
HashKeys == {H1Sha1, H1Sha512, H2Sha1, HBad}
ModIds == {30001, 30002}
FileIds == {530001, 530002}
Fingerprints == {11, 12}
Algorithms == {"sha1", "sha512"}

Collections == {"Project", "Version", "File", "Mod", "CFFile", "Fingerprint"}

\* every selection of the documents of a pool, in the pool's order
SubSeqs(pool) == {SelectSeq(pool, LAMBDA d : d \in S) : S \in SUBSET Range(pool)}

EmptyStore == [c \in Collections |-> <<>>]

\* aio_mongo_engine.find(Model, condition): the matching documents, in store order
find(coll, Cond(_)) == SelectSeq(coll, Cond)

\* time.time() <= sync_at + expire is "not expired"
is_expired(doc, expire, time) == ~(time <= doc.sync_at + expire)

----------------------------------------------------------------------------
(* The backfill queues: app/sync_queue *)

QueueNames ==
    {"modrinth_project_ids", "modrinth_version_ids", "modrinth_hashes_sha1",
     "modrinth_hashes_sha512", "curseforge_modids", "curseforge_fileids",
     "curseforge_fingerprints"}

EmptyQueues == [n \in QueueNames |-> EmptyBag]

\* a variant of sadd that appends every member, as RPUSH on a list does
rpush(q, name, members) ==
    [q EXCEPT ![name] =
        @ (+) [m \in Range(members) |->
                 Cardinality({i \in 1..Len(members) : members[i] = m})]]

\* sync_queuq_redis_engine.sadd(name, *members): the members the set does not
\* hold yet are added, each once
sadd(q, name, members) ==
    [q EXCEPT ![name] = @ (+) SetToBag(Range(members) \ BagToSet(@))]

\* the result of one call of an add_*_to_queue function: whether it raised,
\* the queues after it, and the members it handed to SADD
NoCall(q) == [raised |-> FALSE, queue |-> q, enq |-> {}]

\* await sync_queuq_redis_engine.sadd(...): the backend answers, or the client
\* raises a ConnectionError that the function does not catch
sadd_call(up, q, name, members) ==
    IF up
    THEN [raised |-> FALSE, queue |-> sadd(q, name, members),
          enq |-> {<<name, m>> : m \in Range(members)}]
    ELSE [raised |-> TRUE, queue |-> q, enq |-> {}]

add_modrinth_project_ids_to_queue(up, q, project_ids) ==
    IF Len(project_ids) # 0
    THEN sadd_call(up, q, "modrinth_project_ids", project_ids)
    ELSE NoCall(q)

\* if re.match(r"[a-zA-Z0-9]{8}", version_id)
version_id_ok(version_id) == re_match(VERSION_ID_LEN, version_id)

add_modrinth_version_ids_to_queue(up, q, version_ids) ==
    LET ids == SelectSeq(version_ids, version_id_ok)
    IN IF Len(ids) > 0
       THEN sadd_call(up, q, "modrinth_version_ids", ids)
       ELSE NoCall(q)

\* re.match(r"[a-zA-Z0-9]{40}" if algorithm == "sha1" else r"[a-zA-Z0-9]{128}", hash)
hash_ok(hash, algorithm) ==
    re_match(IF algorithm = "sha1" THEN SHA1_LEN ELSE SHA512_LEN, hash)

add_modrinth_hashes_to_queue(up, q, hashes, algorithm) ==
    IF algorithm \notin {"sha1", "sha512"}
    THEN [raised |-> TRUE, queue |-> q, enq |-> {}]
    ELSE LET hs == SelectSeq(hashes, LAMBDA h : hash_ok(h, algorithm))
         IN IF Len(hs) > 0
            THEN sadd_call(up, q, "modrinth_hashes_" \o algorithm, hs)
            ELSE NoCall(q)

\* app/sync_queue/curseforge.py: the keys are integers; a non-empty list is
\* added to the kind's set
add_curseforge_modIds_to_queue(up, q, modIds) ==
    IF Len(modIds) # 0 THEN sadd_call(up, q, "curseforge_modids", modIds) ELSE NoCall(q)

add_curseforge_fileIds_to_queue(up, q, fileIds) ==
    IF Len(fileIds) # 0 THEN sadd_call(up, q, "curseforge_fileids", fileIds) ELSE NoCall(q)

add_curseforge_fingerprints_to_queue(up, q, fingerprints) ==
    IF Len(fingerprints) # 0
    THEN sadd_call(up, q, "curseforge_fingerprints", fingerprints)
    ELSE NoCall(q)

----------------------------------------------------------------------------
(* Responses: app/utils/response *)

\* JSON contents, tagged by their kind
JNull == [t |-> "null"]
JObj(v) == [t |-> "obj", v |-> v]
JList(v) == [t |-> "list", v |-> v]
\* the empty body of a Response built without content
EmptyBody == [t |-> "empty"]

NoHeaders == [h \in {} |-> ""]

\* hashlib.sha1 over orjson.dumps(content) and str(status_code): the digest
\* stands for the pair it is computed from
generate_etag(content, status_code) == <<"sha1", content, status_code>>

\* BaseResponse(content, status_code, headers): the headers dict is filled in
\* before the response is built
BaseResponse(content, status_code, headers) ==
    LET h1 == IF status_code = HTTP_OK /\ "Cache-Control" \notin DOMAIN headers
              THEN ("Cache-Control" :> "public, max-age=86400") @@ headers
              ELSE headers
        h2 == IF content # JNull /\ status_code = HTTP_OK
              THEN ("Etag" :> generate_etag(content, status_code)) @@ h1
              ELSE h1
    IN [status_code |-> status_code, headers |-> h2, body |-> content]

\* a variant that writes the opposite Trustable value
TrustableResponseInverted(status_code, content, headers, trustable) ==
    BaseResponse(content, status_code,
                 ("Trustable" :> (IF trustable THEN "False" ELSE "True")) @@ headers)

TrustableResponse(status_code, content, headers, trustable) ==
    BaseResponse(content, status_code,
                 ("Trustable" :> (IF trustable THEN "True" ELSE "False")) @@ headers)

\* UncachedResponse(): status 404, the one header Trustable: False, no body
UncachedResponse ==
    [status_code |-> HTTP_NOT_FOUND, headers |-> ("Trustable" :> "False"),
     body |-> EmptyBody]

\* an exception that leaves the handler instead of a response
Raised(exc) == [exception |-> exc]

IsResponse(r) == "status_code" \in DOMAIN r
IsRaised(r) == "exception" \in DOMAIN r

\* headers: dict = {} is one dict for all calls, and the constructors write
\* into it: after a call without a headers argument the default dict of the
\* constructor holds the headers of the response it built
FromTrustableResponse(r) ==
    IsResponse(r) /\ r.status_code = HTTP_OK /\ "Trustable" \in DOMAIN r.headers

\* the default dicts after a handler returned r.  The handlers build their
\* 200 responses with TrustableResponse(content=..., trustable=...) and no
\* headers argument; UncachedResponse rebinds headers to a new dict
defaults_after(d, r) ==
    IF FromTrustableResponse(r) THEN [d EXCEPT !.TrustableResponse = r.headers] ELSE d

----------------------------------------------------------------------------
(* The route handlers: app/routes/modrinth/v2 and app/routes/curseforge/v1 *)
(*                                                                         *)
(* A handler is a function of the store, the queues and the state of the   *)
(* queue backend at its call.  Its outcome is the response (or the         *)
(* exception that left it), the queues after it, the members it handed to  *)
(* SADD and the documents the store returned.                              *)

\* the handler returns resp after the add call, unless the call raised
Outcome(call, resp, models) ==
    [response |-> IF call.raised THEN Raised("ConnectionError") ELSE resp,
     queue |-> call.queue, enq |-> call.enq, models |-> models, queried |-> TRUE]

\* the outcome of a handler that returned before it queried the store
Returned(q, resp) ==
    [response |-> resp, queue |-> q, enq |-> {}, models |-> <<>>, queried |-> FALSE]

Ids(models) == {m.id : m \in Range(models)}

modrinth_project(st, q, up, idslug) ==
    LET found == find(st.Project, LAMBDA d : d.id = idslug \/ d.slug = idslug)
    IN IF found = <<>>
       THEN Outcome(add_modrinth_project_ids_to_queue(up, q, <<idslug>>),
                    UncachedResponse, found)
       ELSE Outcome(NoCall(q),
                    TrustableResponse(HTTP_OK, JObj(found[1]), NoHeaders, TRUE),
                    <<found[1]>>)

\* a variant that answers an empty result without enqueuing
modrinth_projects_no_enqueue(st, q, up, ids_list) ==
    LET models == find(st.Project,
                       LAMBDA d : d.id \in Range(ids_list) \/ d.slug \in Range(ids_list))
        not_match_ids == list_set_minus(ids_list, Ids(models))
    IN IF models = <<>>
       THEN Outcome(NoCall(q), UncachedResponse, models)
       ELSE IF Len(models) # Len(ids_list)
       THEN Outcome(add_modrinth_project_ids_to_queue(up, q, not_match_ids),
                    TrustableResponse(HTTP_OK, JList(models), NoHeaders, FALSE),
                    models)
       ELSE Outcome(NoCall(q),
                    TrustableResponse(HTTP_OK, JList(models), NoHeaders, TRUE),
                    models)

modrinth_projects(st, q, up, ids_list) ==
    LET models == find(st.Project,
                       LAMBDA d : d.id \in Range(ids_list) \/ d.slug \in Range(ids_list))
        models_count == Len(models)
        ids_count == Len(ids_list)
        not_match_ids == list_set_minus(ids_list, Ids(models))
    IN IF models = <<>>
       THEN Outcome(add_modrinth_project_ids_to_queue(up, q, ids_list),
                    UncachedResponse, models)
       ELSE IF models_count # ids_count
       THEN Outcome(add_modrinth_project_ids_to_queue(up, q, not_match_ids),
                    TrustableResponse(HTTP_OK, JList(models), NoHeaders, FALSE),
                    models)
       ELSE Outcome(NoCall(q),
                    TrustableResponse(HTTP_OK, JList(models), NoHeaders, TRUE),
                    models)

modrinth_version(st, q, up, version_id) ==
    LET found == find(st.Version, LAMBDA d : d.id = version_id)
    IN IF found = <<>>
       THEN Outcome(add_modrinth_version_ids_to_queue(up, q, <<version_id>>),
                    UncachedResponse, found)
       ELSE Outcome(NoCall(q),
                    TrustableResponse(HTTP_OK, JObj(found[1]), NoHeaders, TRUE),
                    <<found[1]>>)

modrinth_versions(st, q, up, ids_list) ==
    LET models == find(st.Version, LAMBDA d : d.id \in Range(ids_list))
        models_count == Len(models)
        ids_count == Len(ids_list)
    IN IF models = <<>>
       THEN Outcome(add_modrinth_version_ids_to_queue(up, q, ids_list),
                    UncachedResponse, models)
       ELSE IF models_count # ids_count
       THEN Outcome(add_modrinth_version_ids_to_queue(up, q, ids_list),
                    TrustableResponse(HTTP_OK, JList(models), NoHeaders, FALSE),
                    models)
       ELSE Outcome(NoCall(q),
                    TrustableResponse(HTTP_OK, JList(models), NoHeaders, TRUE),
                    models)

modrinth_file(st, q, up, hash_, algorithm) ==
    LET files == find(st.File,
                      LAMBDA d : IF algorithm = "sha512"
                                 THEN d.hashes.sha512 = hash_
                                 ELSE d.hashes.sha1 = hash_)
    IN IF files = <<>>
       THEN Outcome(add_modrinth_hashes_to_queue(up, q, <<hash_>>, algorithm),
                    UncachedResponse, files)
       ELSE LET file == files[1]
                versions == find(st.Version, LAMBDA d : d.id = file.version_id)
            IN IF versions = <<>>
               THEN Outcome(add_modrinth_version_ids_to_queue(up, q, <<file.version_id>>),
                            UncachedResponse, <<file>>)
               ELSE Outcome(NoCall(q),
                            TrustableResponse(HTTP_OK, JObj(versions[1]), NoHeaders, TRUE),
                            <<file>>)

\* two awaited add calls, one after the other: the second starts from the
\* queues the first has left
then_call(first, second) ==
    [raised |-> second.raised, queue |-> second.queue,
     enq |-> first.enq \cup second.enq]

\* POST /version_files, up to the second query: the files found by the
\* requested algorithm and the add call for the hashes that were not found
modrinth_files_lookup(st, q, up, hashes, algorithm) ==
    LET hash_of(file) == IF algorithm = "sha1" THEN file.hashes.sha1
                                              ELSE file.hashes.sha512
        files_models == find(st.File, LAMBDA d : hash_of(d) \in Range(hashes))
        not_found_hashes ==
            list_set_minus(hashes, {hash_of(file) : file \in Range(files_models)})
        hashes_added == /\ files_models # <<>>
                        /\ Len(files_models) # Len(hashes)
                        /\ not_found_hashes # <<>>
    IN [files_models |-> files_models,
        added |-> hashes_added,
        call |-> IF hashes_added
                 THEN add_modrinth_hashes_to_queue(up, q, not_found_hashes, algorithm)
                 ELSE NoCall(q)]

\* POST /version_files.  The versions are looked up by the version ids of the
\* files; the answer is keyed by version.files[0].hashes
modrinth_files(st, q, up, hashes, algorithm) ==
    LET hash_of(file) == IF algorithm = "sha1" THEN file.hashes.sha1
                                              ELSE file.hashes.sha512
        lookup == modrinth_files_lookup(st, q, up, hashes, algorithm)
        files_models == lookup.files_models
        first == lookup.call
        version_ids == [i \in 1..Len(files_models) |-> files_models[i].version_id]
        version_models == find(st.Version, LAMBDA d : d.id \in Range(version_ids))
        not_found_version_ids == list_set_minus(version_ids, Ids(version_models))
        versions_added == /\ Len(version_models) # Len(files_models)
                          /\ not_found_version_ids # <<>>
        second == IF versions_added
                  THEN add_modrinth_version_ids_to_queue(up, first.queue,
                                                         not_found_version_ids)
                  ELSE NoCall(first.queue)
        key_of(version) == hash_of(version.files[1])
        result == [k \in {key_of(version) : version \in Range(version_models)} |->
                     LET last == CHOOSE i \in 1..Len(version_models) :
                                    /\ key_of(version_models[i]) = k
                                    /\ \A j \in 1..Len(version_models) :
                                          key_of(version_models[j]) = k => j <= i
                     IN version_models[last]]
    IN IF files_models = <<>>
       THEN Outcome(add_modrinth_hashes_to_queue(up, q, hashes, algorithm),
                    UncachedResponse, <<>>)
       ELSE IF first.raised
       THEN Outcome(first, UncachedResponse, files_models)
       ELSE IF version_models = <<>>
       THEN Outcome(then_call(first,
                              add_modrinth_version_ids_to_queue(up, first.queue,
                                                                version_ids)),
                    UncachedResponse, files_models)
       ELSE Outcome(then_call(first, second),
                    TrustableResponse(HTTP_OK, JObj(result), NoHeaders,
                                      ~lookup.added /\ ~versions_added),
                    files_models \o version_models)

curseforge_mod(st, q, up, modId) ==
    LET found == find(st.Mod, LAMBDA d : d.id = modId)
    IN IF found = <<>>
       THEN Outcome(add_curseforge_modIds_to_queue(up, q, <<modId>>),
                    UncachedResponse, found)
       ELSE Outcome(NoCall(q),
                    TrustableResponse(HTTP_OK, JObj([data |-> found[1]]), NoHeaders, TRUE),
                    <<found[1]>>)

curseforge_mods(st, q, up, modIds) ==
    LET mod_models == find(st.Mod, LAMBDA d : d.id \in Range(modIds))
        mod_model_count == Len(mod_models)
        item_count == Len(modIds)
        not_match_modids == list_set_minus(modIds, Ids(mod_models))
    IN IF mod_models = <<>>
       THEN Outcome(add_curseforge_modIds_to_queue(up, q, modIds),
                    TrustableResponse(HTTP_OK, JObj([data |-> <<>>]), NoHeaders, FALSE),
                    mod_models)
       ELSE IF mod_model_count # item_count
       THEN Outcome(add_curseforge_modIds_to_queue(up, q, not_match_modids),
                    TrustableResponse(HTTP_OK, JObj([data |-> mod_models]), NoHeaders, FALSE),
                    mod_models)
       ELSE Outcome(NoCall(q),
                    TrustableResponse(HTTP_OK, JObj([data |-> mod_models]), NoHeaders, TRUE),
                    mod_models)

curseforge_files(st, q, up, fileIds) ==
    LET file_models == find(st.CFFile, LAMBDA d : d.id \in Range(fileIds))
        not_match_fileids == list_set_minus(fileIds, Ids(file_models))
    IN IF file_models = <<>>
       THEN Outcome(add_curseforge_fileIds_to_queue(up, q, fileIds),
                    UncachedResponse, file_models)
       ELSE IF Len(file_models) # Len(fileIds)
       THEN Outcome(add_curseforge_fileIds_to_queue(up, q, not_match_fileids),
                    TrustableResponse(HTTP_OK, JObj([data |-> file_models]), NoHeaders, FALSE),
                    file_models)
       ELSE Outcome(NoCall(q),
                    TrustableResponse(HTTP_OK, JObj([data |-> file_models]), NoHeaders, TRUE),
                    file_models)

curseforge_mod_file(st, q, up, modId, fileId) ==
    LET found == find(st.CFFile, LAMBDA d : d.modId = modId /\ d.id = fileId)
    IN IF found = <<>>
       THEN Outcome(add_curseforge_fileIds_to_queue(up, q, <<fileId>>),
                    UncachedResponse, found)
       ELSE Outcome(NoCall(q),
                    TrustableResponse(HTTP_OK, JObj([data |-> found[1]]), NoHeaders, TRUE),
                    <<found[1]>>)

\* FingerprintResponse(data=_FingerprintResult(...)): the fields the handler
\* does not pass keep the defaults of _FingerprintResult
FingerprintResult(exactFingerprints, exactMatches, unmatchedFingerprints) ==
    JObj([data |-> [isCacheBuilt |-> TRUE,
                    exactMatches |-> exactMatches,
                    exactFingerprints |-> exactFingerprints,
                    installedFingerprints |-> <<>>,
                    unmatchedFingerprints |-> unmatchedFingerprints]])

\* fingerprint = fingerprint_model.model_dump(); fingerprint["id"] = fingerprint_model.file.id
FingerprintMatch(m) == [m EXCEPT !.id = m.file.id]

curseforge_fingerprints(st, q, up, fingerprints) ==
    LET fingerprints_models == find(st.Fingerprint, LAMBDA d : d.id \in Range(fingerprints))
        not_match_fingerprints == list_set_minus(fingerprints, Ids(fingerprints_models))
        exactFingerprints == [i \in 1..Len(fingerprints_models) |-> fingerprints_models[i].id]
        result_fingerprints_models ==
            [i \in 1..Len(fingerprints_models) |-> FingerprintMatch(fingerprints_models[i])]
    IN IF fingerprints_models = <<>>
       THEN Outcome(add_curseforge_fingerprints_to_queue(up, q, fingerprints),
                    TrustableResponse(HTTP_OK, FingerprintResult(<<>>, <<>>, fingerprints),
                                      NoHeaders, FALSE),
                    fingerprints_models)
       ELSE IF Len(fingerprints_models) # Len(fingerprints)
       THEN Outcome(add_curseforge_fingerprints_to_queue(up, q, not_match_fingerprints),
                    TrustableResponse(HTTP_OK,
                                      FingerprintResult(exactFingerprints,
                                                        result_fingerprints_models,
                                                        not_match_fingerprints),
                                      NoHeaders, FALSE),
                    fingerprints_models)
       ELSE Outcome(NoCall(q),
                    TrustableResponse(HTTP_OK,
                                      FingerprintResult(exactFingerprints,
                                                        result_fingerprints_models,
                                                        not_match_fingerprints),
                                      NoHeaders, TRUE),
                    fingerprints_models)

\* POST /fingerprints/432: lines 495-538 repeat the statements of
\* curseforge_fingerprints, lines 442-486, one for one
curseforge_fingerprints_432(st, q, up, fingerprints) ==
    LET fingerprints_models == find(st.Fingerprint, LAMBDA d : d.id \in Range(fingerprints))
        not_match_fingerprints == list_set_minus(fingerprints, Ids(fingerprints_models))
        exactFingerprints == [i \in 1..Len(fingerprints_models) |-> fingerprints_models[i].id]
        result_fingerprints_models ==
            [i \in 1..Len(fingerprints_models) |-> FingerprintMatch(fingerprints_models[i])]
        data == FingerprintResult(exactFingerprints, result_fingerprints_models,
                                  not_match_fingerprints)
    IN IF fingerprints_models = <<>>
       THEN Outcome(add_curseforge_fingerprints_to_queue(up, q, fingerprints),
                    TrustableResponse(HTTP_OK, FingerprintResult(<<>>, <<>>, fingerprints),
                                      NoHeaders, FALSE),
                    fingerprints_models)
       ELSE IF Len(fingerprints_models) # Len(fingerprints)
       THEN Outcome(add_curseforge_fingerprints_to_queue(up, q, not_match_fingerprints),
                    TrustableResponse(HTTP_OK, data, NoHeaders, FALSE),
                    fingerprints_models)
       ELSE Outcome(NoCall(q), TrustableResponse(HTTP_OK, data, NoHeaders, TRUE),
                    fingerprints_models)

\* the handlers, by name; args is the tuple of the request's arguments
----------------------------------------------------------------------------
(* The file routes: app/controller/file_cdn *)

\* status_code=302 and status_code=301 of the redirects
HTTP_FOUND == 302
HTTP_MOVED_PERMANENTLY == 301

\* MAX_AGE = int(60 * 60 * 2.5); _93ATHOME_MAX_AGE = int(60 * 60 * 24 * 7)
MAX_AGE == 9000
_93ATHOME_MAX_AGE == 604800

\* if fileid >= 530000
MIN_QUEUED_FILEID == 530000

\* RedirectResponse(url, headers, status_code): the url goes into the location
\* header.  A url is the sequence of its parts, an f-string their concatenation
RedirectResponse(url, headers, status_code) ==
    [status_code |-> status_code, headers |-> ("location" :> url) @@ headers,
     body |-> EmptyBody]

\* f"public, age={n}" for the two ages the file routes format, and the age
\* a client reads back from such a value
public_age(n) ==
    CASE n = 86400 -> "public, age=86400"
      [] n = 604800 -> "public, age=604800"
age_of(value) == CHOOSE n \in {86400, 604800} : public_age(n) = value

\* headers={"Cache-Control": f"public, age={3600 * 24 * 1}"} and {3600 * 24 * 7}
AgeOneDay == [h \in {"Cache-Control"} |-> public_age(3600 * 24 * 1)]
AgeOneWeek == [h \in {"Cache-Control"} |-> public_age(3600 * 24 * 7)]

\* file.size <= max_file_size and file.file_cdn_cached
eligible_any_file(size, file_cdn_cached, cfg) == TRUE
eligible(size, file_cdn_cached, cfg) ==
    size <= cfg.max_file_size /\ file_cdn_cached

\* a Modrinth file and a CurseForge file as the file routes read them
MRFileDoc(project_id, version_id, filename, size, file_cdn_cached, sha1) ==
    [project_id |-> project_id, version_id |-> version_id, filename |-> filename,
     size |-> size, file_cdn_cached |-> file_cdn_cached, hashes |-> [sha1 |-> sha1]]
CFFileLengthDoc(id, fileName, fileLength, file_cdn_cached, hashes) ==
    [id |-> id, fileName |-> fileName, fileLength |-> fileLength,
     file_cdn_cached |-> file_cdn_cached, hashes |-> hashes]

\* get_origin_response, get_open93home_response and get_pysio_response of
\* get_modrinth_file
modrinth_origin_response(project_id, version_id, file_name) ==
    RedirectResponse(<<"https://", "cdn.modrinth.com", "/data/", project_id,
                       "/versions/", version_id, "/", file_name>>,
                     AgeOneDay, HTTP_FOUND)
modrinth_open93home_response(cfg, sha1) ==
    RedirectResponse(cfg.open93home_endpoint \o <<"/", sha1>>, AgeOneWeek,
                     HTTP_MOVED_PERMANENTLY)
modrinth_pysio_response(cfg, project_id, version_id, file_name) ==
    RedirectResponse(<<"https://">> \o cfg.pysio_endpoint
                        \o <<"/data/", project_id, "/versions/", version_id,
                             "/", file_name>>,
                     AgeOneDay, HTTP_FOUND)

\* GET /data/{project_id}/versions/{version_id}/{file_name}
get_modrinth_file(st, q, up, cfg, project_id, version_id, file_name) ==
    LET origin_response == modrinth_origin_response(project_id, version_id, file_name)
        pysio_response ==
            modrinth_pysio_response(cfg, project_id, version_id, file_name)
        found == SelectSeq(st.File, LAMBDA f : /\ f.project_id = project_id
                                              /\ f.version_id = version_id
                                              /\ f.filename = file_name)
    IN IF ~cfg.file_cdn
       THEN Returned(q, origin_response)
       ELSE IF cfg.file_cdn_redirect_mode = "pysio"
       THEN Returned(q, pysio_response)
       ELSE IF found # <<>>
       THEN LET file == found[1]
            IN IF eligible(file.size, file.file_cdn_cached, cfg)
                  /\ cfg.file_cdn_redirect_mode = "open93home"
               THEN Outcome(NoCall(q),
                            modrinth_open93home_response(cfg, file.hashes.sha1),
                            <<file>>)
               ELSE Outcome(NoCall(q), origin_response, <<file>>)
       ELSE Outcome(add_modrinth_project_ids_to_queue(up, q, <<project_id>>),
                    origin_response, <<>>)

\* str(n) has Digits(n) characters
RECURSIVE Digits(_)
Digits(n) == IF n < 10 THEN 1 ELSE 1 + Digits(n \div 10)
RECURSIVE Pow10(_)
Pow10(k) == IF k = 0 THEN 1 ELSE 10 * Pow10(k - 1)

\* int(f"{fileid1}{fileid2}")
concat_fileid(fileid1, fileid2) == fileid1 * Pow10(Digits(fileid2)) + fileid2

\* get_origin_response, get_open93home_response and get_pysio_response of
\* get_curseforge_file
curseforge_origin_response(fileId1, fileId2, file_name) ==
    RedirectResponse(<<"https://", "edge.forgecdn.net", "/files/", fileId1, "/",
                       fileId2, "/", file_name>>,
                     AgeOneWeek, HTTP_FOUND)
curseforge_open93home_response(cfg, sha1) ==
    RedirectResponse(cfg.open93home_endpoint \o <<"/", sha1>>, AgeOneWeek,
                     HTTP_MOVED_PERMANENTLY)
curseforge_pysio_response(cfg, fileId1, fileId2, file_name) ==
    RedirectResponse(cfg.pysio_endpoint
                        \o <<"/files/", fileId1, "/", fileId2, "/", file_name>>,
                     AgeOneWeek, HTTP_MOVED_PERMANENTLY)

\* GET /files/{fileid1}/{fileid2}/{file_name}.  With a file that is found,
\* within the size limit and cached while the mode is open93home, the call
\* get_open93home_response(sha1, request) passes two arguments to a function
\* of one and raises TypeError
get_curseforge_file(st, q, up, cfg, fileid1, fileid2, file_name) ==
    LET origin_response == curseforge_origin_response(fileid1, fileid2, file_name)
        pysio_response == curseforge_pysio_response(cfg, fileid1, fileid2, file_name)
        fileid == concat_fileid(fileid1, fileid2)
        found == SelectSeq(st.CFFile, LAMBDA f : f.id = fileid /\ f.fileName = file_name)
    IN IF ~cfg.file_cdn
       THEN Returned(q, origin_response)
       ELSE IF cfg.file_cdn_redirect_mode = "pysio"
       THEN Returned(q, pysio_response)
       ELSE IF found # <<>>
       THEN LET file == found[1]
            IN IF eligible(file.fileLength, file.file_cdn_cached, cfg)
                  /\ cfg.file_cdn_redirect_mode = "open93home"
               THEN Outcome(NoCall(q), Raised("TypeError"), <<file>>)
               ELSE Outcome(NoCall(q), origin_response, <<file>>)
       ELSE IF fileid >= MIN_QUEUED_FILEID
       THEN Outcome(add_curseforge_fileIds_to_queue(up, q, <<fileid>>),
                    origin_response, <<>>)
       ELSE Outcome(NoCall(q), origin_response, <<>>)

Funcs ==
    {"modrinth_project", "modrinth_projects", "modrinth_version", "modrinth_versions",
     "modrinth_file", "curseforge_mod", "curseforge_mods", "curseforge_files",
     "curseforge_mod_file", "curseforge_fingerprints", "get_modrinth_file",
     "get_curseforge_file", "curseforge_fingerprints_432", "modrinth_files"}

call_func(func, args, st, q, up) ==
    CASE func = "modrinth_project" -> modrinth_project(st, q, up, args[1])
      [] func = "modrinth_projects" -> modrinth_projects(st, q, up, args[1])
      [] func = "modrinth_version" -> modrinth_version(st, q, up, args[1])
      [] func = "modrinth_versions" -> modrinth_versions(st, q, up, args[1])
      [] func = "modrinth_file" -> modrinth_file(st, q, up, args[1], args[2])
      [] func = "curseforge_mod" -> curseforge_mod(st, q, up, args[1])
      [] func = "curseforge_mods" -> curseforge_mods(st, q, up, args[1])
      [] func = "curseforge_files" -> curseforge_files(st, q, up, args[1])
      [] func = "curseforge_mod_file" -> curseforge_mod_file(st, q, up, args[1], args[2])
      [] func = "curseforge_fingerprints" -> curseforge_fingerprints(st, q, up, args[1])
      [] func = "modrinth_files" -> modrinth_files(st, q, up, args[1], args[2])
      [] func = "curseforge_fingerprints_432" ->
            curseforge_fingerprints_432(st, q, up, args[1])
      [] func = "get_modrinth_file" ->
            get_modrinth_file(st, q, up, config, args[1], args[2], args[3])
      [] func = "get_curseforge_file" ->
            get_curseforge_file(st, q, up, config, args[1], args[2], args[3])

\* await aio_mongo_engine.find(...) / find_one(...) raises when the document
\* store cannot be reached; no handler catches the exception
StoreError == Raised("ServerSelectionTimeoutError")

\* the store queries the handler awaits for this request, one after another:
\* none on the early returns of the file routes; a second one in modrinth_file
\* and modrinth_files once the first has found a file and the add call that
\* follows it has returned
queries(func, args, st, q, up, cfg) ==
    CASE func \in {"get_modrinth_file", "get_curseforge_file"} ->
            IF ~cfg.file_cdn \/ cfg.file_cdn_redirect_mode = "pysio" THEN 0 ELSE 1
      [] func = "modrinth_file" ->
            IF modrinth_file(st, q, up, args[1], args[2]).models = <<>> THEN 1 ELSE 2
      [] func = "modrinth_files" ->
            LET lookup == modrinth_files_lookup(st, q, up, args[1], args[2])
            IN IF lookup.files_models = <<>> \/ lookup.call.raised THEN 1 ELSE 2
      [] OTHER -> 1

\* a variant that treats a failed query as one that found nothing
query_finds_nothing(func, args, st, q, up, n) ==
    call_func(func, args, EmptyStore, q, up)

\* the outcome of the handler when its n-th store query raises: the exception
\* leaves the handler after the statements that precede the query.  The first
\* query is the first statement of every handler; before the second one
\* modrinth_file has added nothing and modrinth_files has added the hashes
\* that the first query did not find
query_raises(func, args, st, q, up, n) ==
    CASE n = 1 -> Outcome(NoCall(q), StoreError, <<>>)
      [] n = 2 /\ func = "modrinth_file" ->
            Outcome(NoCall(q), StoreError,
                    modrinth_file(st, q, up, args[1], args[2]).models)
      [] n = 2 /\ func = "modrinth_files" ->
            LET lookup == modrinth_files_lookup(st, q, up, args[1], args[2])
            IN [Outcome(lookup.call, StoreError, lookup.files_models)
                  EXCEPT !.response = StoreError]

----------------------------------------------------------------------------
(* The response cache: app/utils/response_cache *)

\* @cache(expire=mcim_config.expire_second...): the decorated handlers and the
\* expire each was decorated with
\* "func" is the parameter of the decorator: any function it is applied to
Decorated ==
    {"modrinth_project", "modrinth_projects", "modrinth_version", "modrinth_versions",
     "modrinth_file", "curseforge_mod", "curseforge_mod_file", "func",
     "get_modrinth_file", "get_curseforge_file"}

\* _cache_instance.key_builder(func, namespace, args, kwargs): a key per route
\* and arguments
key_builder(func, namespace, args) == <<namespace, func, args>>

\* orjson.dumps and orjson.loads
dumps(v) == <<"json", v>>
loads(b) == b[2]

\* ResponseBuilder.encode and ResponseBuilder.decode
encode(r) ==
    [type |-> "Response",
     value |-> [status_code |-> r.status_code, headers |-> r.headers, content |-> r.body]]
decode(v) ==
    [status_code |-> v.value.status_code, headers |-> v.value.headers,
     body |-> v.value.content]

NoCache == [k \in {} |-> 0]

\* backend.get(key): the value, unless the key is absent or its expiry has passed
Live(c, key, time) ==
    key \in DOMAIN c /\ \A t \in c[key].expire_at : time < t

----------------------------------------------------------------------------
(* The request-handling tasks *)

NumTasks == 2
Tasks == 1..NumTasks

NoResult == [pending |-> TRUE]

\* a task: where it stands (pc), the handler and arguments of its request, how
\* the request was answered (via: "direct", "hit" or "miss"), the result, and
\* what the handler did: the documents the store returned (models), the members
\* handed to SADD (enq), those of them the queue already held (held), the time
\* of the call (at).  On a hit, origin is the handler response the entry was
\* written from.  calls counts the invocations of the handler for the request,
\* force is the force keyword argument of the call
IdleTask ==
    [pc |-> "idle", func |-> "", args |-> <<>>, via |-> "", result |-> NoResult,
     enq |-> {}, held |-> {}, models |-> <<>>, at |-> 0, origin |-> NoResult,
     calls |-> 0, force |-> FALSE, queried |-> FALSE, store_error |-> FALSE]

\* the expire each handler was decorated with
EXPIRE_MODRINTH_VERSION == 86400
EXPIRE_MODRINTH_FILE == 604800
EXPIRE_CURSEFORGE_FILE == 86400

\* def cache(expire: int = 60, never_expire: bool = False)
EXPIRE_DEFAULT == 60

\* the file routes are decorated when the module is imported:
\*   expire=_93ATHOME_MAX_AGE if file_cdn_redirect_mode == ORIGIN else MAX_AGE
\* with the configuration of that moment
FileExpire(cfg) ==
    IF cfg.file_cdn_redirect_mode = "origin" THEN _93ATHOME_MAX_AGE ELSE MAX_AGE

\* @cache(expire=mcim_config.expire_second.modrinth.project) and the like: the
\* argument of the decorator is evaluated when the module is imported, with
\* the configuration cfg loaded at that moment
expire_argument(func, cfg) ==
    CASE func = "func" -> EXPIRE_DEFAULT
      [] func \in {"get_modrinth_file", "get_curseforge_file"} -> FileExpire(cfg)
      [] func \in {"modrinth_project", "modrinth_projects"} ->
            cfg.expire_second.modrinth.project
      [] func \in {"modrinth_version", "modrinth_versions"} ->
            cfg.expire_second.modrinth.version
      [] func = "modrinth_file" -> cfg.expire_second.modrinth.file
      [] func = "curseforge_mod" -> cfg.expire_second.curseforge.mod
      [] func = "curseforge_mod_file" -> cfg.expire_second.curseforge.file

ExpireOf(func) == expire_argument(func, imported)

\* the key the wrapper computes for a task's request
KeyOf(tk) == key_builder(tk.func, "fastapi_cache", tk.args)

\* a variant of the test below that looks at the force argument only
bypass_force_only(force, en) == force

\* kwargs.get("force") is True or not _cache_instance.enabled
bypass(force, en) == force \/ ~en

\* a call of a handler.  For a decorated handler the wrapper starts:
\*   if kwargs.get("force") is True or not _cache_instance.enabled:
\*       return await func(*args, **kwargs)
\*   key = key_builder(...); value = await backend.get(key)
Call(t, func, args, force) ==
    /\ app = "running"
    /\ task[t].pc = "idle"
    /\ task' = [task EXCEPT ![t] =
                  [IdleTask EXCEPT !.func = func, !.args = args,
                                   !.via = "direct", !.force = force,
                                   !.pc = IF func \in Decorated /\ ~bypass(force, enabled)
                                          THEN "get" ELSE "func"]]
    /\ UNCHANGED <<store, queue, queue_up, cache, enabled, now,
                   written, app, config, defaults, imported, background>>

\* a request reaches the route: the server calls the handler with the
\* parameters of the route, none of which is force
Request(t, func, args) == Call(t, func, args, FALSE)

\* a variant of the read that goes on to the handler on a hit as well
CacheGetThenCall(t) ==
    /\ task[t].pc = "get"
    /\ LET key == KeyOf(task[t])
       IN IF Live(cache, key, now)
          THEN task' = [task EXCEPT ![t].pc = "func", ![t].via = "hit",
                                    ![t].result = decode(loads(cache[key].value)),
                                    ![t].origin = written[key]]
          ELSE task' = [task EXCEPT ![t].pc = "func", ![t].via = "miss"]
    /\ UNCHANGED <<store, queue, queue_up, cache, enabled, now,
                   written, app, config, defaults, imported, background>>

\* value = await backend.get(key): on a hit the stored response is decoded and
\* returned, on a miss the wrapper goes on to the handler
CacheGet(t) ==
    /\ task[t].pc = "get"
    /\ LET key == KeyOf(task[t])
       IN IF Live(cache, key, now)
          THEN task' = [task EXCEPT ![t].pc = "idle", ![t].via = "hit",
                                    ![t].result = decode(loads(cache[key].value)),
                                    ![t].origin = written[key]]
          ELSE task' = [task EXCEPT ![t].pc = "func", ![t].via = "miss"]
    /\ UNCHANGED <<store, queue, queue_up, cache, enabled, now,
                   written, app, config, defaults, imported, background>>

\* "no-cache" in result.headers["Cache-Control"]
ForbidsCaching(r) ==
    "Cache-Control" \in DOMAIN r.headers
    /\ r.headers["Cache-Control"] \in {"no-cache", "no-cache, no-store"}

\* the members of a SADD call that the queue held before the call
Held(enq, q) == {e \in enq : e[2] \in BagToSet(q[e[1]])}

\* a variant of the test that does not look at the Cache-Control header
cacheable_any_cache_control(via, r) ==
    via = "miss" /\ IsResponse(r) /\ ~(r.status_code >= HTTP_ERROR_FROM)

\* a variant of the test below that does not look at the status code
cacheable_any_status(via, r) ==
    via = "miss" /\ IsResponse(r) /\ ~ForbidsCaching(r)

\* the wrapper after result = await func(*args, **kwargs) on the miss path:
\*   if isinstance(result, Response):
\*       if result.status_code >= 400: return result
\*       elif "Cache-Control" in result.headers:
\*           if "no-cache" in result.headers["Cache-Control"]: return result
\*       to_set = ResponseBuilder.encode(result)
\*   else: return result
\* TRUE when the wrapper goes on to backend.set
cacheable(via, r) ==
    /\ via = "miss"
    /\ IsResponse(r)
    /\ ~(r.status_code >= HTTP_ERROR_FROM)
    /\ ~ForbidsCaching(r)

\* result = await func(*args, **kwargs): the handler runs.  Called directly
\* its result is the answer; no handler has a force parameter, so a call that
\* carries force=True raises TypeError.  On the miss path an exception leaves
\* the wrapper;
\* a result with status_code >= 400, or one whose Cache-Control holds no-cache,
\* is returned as it is; any other is encoded and goes on to backend.set
HandlerEnds(t, out, store_error) ==
    LET r == out.response
    IN /\ queue' = out.queue
       /\ task' = [task EXCEPT ![t].pc = IF cacheable(task[t].via, r)
                                         THEN "set" ELSE "idle",
                               ![t].result = r,
                               ![t].enq = out.enq,
                               ![t].models = out.models,
                               ![t].at = now,
                               ![t].calls = @ + 1,
                               ![t].queried = out.queried,
                               ![t].store_error = store_error]
       /\ defaults' = defaults_after(defaults, r)

Handler(t) ==
    /\ task[t].pc = "func"
    /\ task[t].func \in Funcs
    /\ HandlerEnds(t, IF task[t].force
                      THEN Returned(queue, Raised("TypeError"))
                      ELSE call_func(task[t].func, task[t].args, store, queue, queue_up),
                   FALSE)
    /\ UNCHANGED <<store, queue_up, cache, enabled, now, written, app, config, imported, background>>

\* the handler runs and one of its store queries raises
HandlerStoreDown(t) ==
    /\ task[t].pc = "func"
    /\ task[t].func \in Funcs
    /\ ~task[t].force
    /\ \E n \in 1..queries(task[t].func, task[t].args, store, queue, queue_up, config) :
          HandlerEnds(t, query_raises(task[t].func, task[t].args, store, queue,
                                      queue_up, n), TRUE)
    /\ UNCHANGED <<store, queue_up, cache, enabled, now, written, app, config, imported, background>>

\* what a function under the decorator may return: a value that is not a
\* Response (a dict), a Response whose Cache-Control holds no-cache, and
\* Responses the wrapper may store
PlainDict == [dict |-> "value"]
Results ==
    {PlainDict,
     [status_code |-> HTTP_OK, headers |-> [h \in {"Cache-Control"} |-> "no-cache"],
      body |-> JObj("x")],
     [status_code |-> HTTP_OK,
      headers |-> [h \in {"Cache-Control"} |-> "no-cache, no-store"], body |-> JObj("x")],
     [status_code |-> HTTP_OK,
      headers |-> [h \in {"Cache-Control"} |-> "public, max-age=86400"],
      body |-> JObj("x")],
     [status_code |-> HTTP_OK, headers |-> NoHeaders, body |-> JObj("y")]}

\* result = await func(*args, **kwargs) for a function that returns one of R:
\* the wrapper returns it as it is, or goes on to backend.set
Returns(t, R) ==
    /\ task[t].pc = "func"
    /\ task[t].func = "func"
    /\ \E r \in R :
          task' = [task EXCEPT ![t].pc = IF cacheable(task[t].via, r)
                                        THEN "set" ELSE "idle",
                              ![t].result = r,
                              ![t].at = now,
                              ![t].calls = @ + 1]
    /\ UNCHANGED <<store, queue, queue_up, cache, enabled, now,
                   written, app, config, defaults, imported, background>>

\* a variant that writes the response without its headers
to_set_without_headers(result) == dumps(encode([result EXCEPT !.headers = NoHeaders]))

\* the value the wrapper writes: value = orjson.dumps(ResponseBuilder.encode(result))
to_set(result) == dumps(encode(result))

\* a variant of the write that keeps the headers of the entry it replaces
CacheSetMixed(t) ==
    /\ task[t].pc = "set"
    /\ LET key == KeyOf(task[t])
           r == task[t].result
           mixed == IF key \in DOMAIN written
                    THEN [r EXCEPT !.headers = written[key].headers] ELSE r
           entry == [value |-> to_set(mixed),
                     expire_at |-> {now + ExpireOf(task[t].func)}]
       IN /\ cache' = [k \in DOMAIN cache \cup {key} |->
                         IF k = key THEN entry ELSE cache[k]]
          /\ written' = [k \in DOMAIN written \cup {key} |->
                           IF k = key THEN mixed ELSE written[k]]
    /\ task' = [task EXCEPT ![t].pc = "idle"]
    /\ UNCHANGED <<store, queue, queue_up, enabled, now, app, config, defaults, imported, background>>

\* await backend.set(key, value, ex=expire); return result
CacheSet(t) ==
    /\ task[t].pc = "set"
    /\ LET key == KeyOf(task[t])
           entry == [value |-> to_set(task[t].result),
                     expire_at |-> {now + ExpireOf(task[t].func)}]
       IN /\ cache' = [k \in DOMAIN cache \cup {key} |->
                         IF k = key THEN entry ELSE cache[k]]
          /\ written' = [k \in DOMAIN written \cup {key} |->
                           IF k = key THEN task[t].result ELSE written[k]]
    /\ task' = [task EXCEPT ![t].pc = "idle"]
    /\ UNCHANGED <<store, queue, queue_up, enabled, now, app, config, defaults, imported, background>>

\* a request has been answered: the wrapper has returned to the server
Done(tk) == tk.pc = "idle" /\ tk.func # ""
Answered(tk) == Done(tk) /\ IsResponse(tk.result)

----------------------------------------------------------------------------
(* The requests of the clients, one action per route *)

ReqLists(S) == SeqUpTo(S, MaxReqLen)

\* Path(alias="id", pattern=r"[a-zA-Z0-9]{8}"): the route takes an id that
\* starts with eight alphanumeric characters
version_path_ok(version_id) == re_match(VERSION_ID_LEN, version_id)

\* Path(alias="hash", pattern=r"[a-zA-Z0-9]{40}|[a-zA-Z0-9]{128}")
hash_path_ok(hash_) == re_match(SHA1_LEN, hash_) \/ re_match(SHA512_LEN, hash_)

\* each action is a request of task t whose keys are drawn from K
GET_modrinth_project(t, K) == \E k \in K : Request(t, "modrinth_project", <<k>>)
GET_modrinth_projects(t, K) ==
    \E ids \in ReqLists(K) : Request(t, "modrinth_projects", <<ids>>)
GET_modrinth_version(t, K) ==
    \E k \in K : version_path_ok(k) /\ Request(t, "modrinth_version", <<k>>)
GET_modrinth_versions(t, K) ==
    \E ids \in ReqLists(K) : Request(t, "modrinth_versions", <<ids>>)
GET_modrinth_file(t, K) ==
    \E h \in K, a \in Algorithms :
        hash_path_ok(h) /\ Request(t, "modrinth_file", <<h, a>>)
POST_modrinth_files(t, K, A) ==
    \E hashes \in ReqLists(K), algorithm \in A :
        /\ \A i \in 1..Len(hashes) : hash_path_ok(hashes[i])
        /\ Request(t, "modrinth_files", <<hashes, algorithm>>)
GET_curseforge_mod(t, K) == \E m \in K : Request(t, "curseforge_mod", <<m>>)
POST_curseforge_mods(t, K) ==
    \E ms \in ReqLists(K) : Request(t, "curseforge_mods", <<ms>>)
POST_curseforge_files(t, K) ==
    \E fs \in ReqLists(K) : Request(t, "curseforge_files", <<fs>>)
GET_curseforge_mod_file(t, K, F) ==
    \E m \in K, f \in F : Request(t, "curseforge_mod_file", <<m, f>>)
POST_curseforge_fingerprints(t, K) ==
    \E fs \in ReqLists(K) : Request(t, "curseforge_fingerprints", <<fs>>)
POST_curseforge_fingerprints_432(t, K) ==
    \E fs \in ReqLists(K) : Request(t, "curseforge_fingerprints_432", <<fs>>)

----------------------------------------------------------------------------
(* The environment: the clock, the external worker, the Redis server *)

TickSeconds == EXPIRE_MODRINTH_PROJECT

Tick ==
    /\ now < MaxTicks * TickSeconds
    /\ now' = now + TickSeconds
    /\ UNCHANGED <<store, queue, queue_up, cache, enabled, task,
                   written, app, config, defaults, imported, background>>

\* the external worker takes a member from a queue
WorkerPop ==
    /\ \E n \in QueueNames : \E k \in BagToSet(queue[n]) :
          queue' = [queue EXCEPT ![n] = @ (-) SetToBag({k})]
    /\ UNCHANGED <<store, queue_up, cache, enabled, now, task,
                   written, app, config, defaults, imported, background>>

\* the sync-queue Redis backend becomes unreachable, and reachable again
BackendDown ==
    /\ queue_up
    /\ queue_up' = FALSE
    /\ UNCHANGED <<store, queue, cache, enabled, now, task,
                   written, app, config, defaults, imported, background>>

BackendUp ==
    /\ ~queue_up
    /\ queue_up' = TRUE
    /\ UNCHANGED <<store, queue, cache, enabled, now, task,
                   written, app, config, defaults, imported, background>>

\* the external worker stores a document, stamped with the time of the
\* synchronisation: the document of that id is replaced, a new one is appended
Upsert(coll, doc) ==
    IF \E i \in 1..Len(coll) : coll[i].id = doc.id
    THEN [i \in 1..Len(coll) |-> IF coll[i].id = doc.id THEN doc ELSE coll[i]]
    ELSE Append(coll, doc)

WorkerSync(c, pool) ==
    /\ \E d \in Range(pool) :
          store' = [store EXCEPT ![c] = Upsert(@, [d EXCEPT !.sync_at = now])]
    /\ UNCHANGED <<queue, queue_up, cache, enabled, now, task,
                   written, app, config, defaults, imported, background>>

\* on_mcim_config_change(): the configuration file changed while the
\* application runs; the cache is enabled or disabled as redis_cache says
\* (Configs: the configurations the file may be changed to)
on_mcim_config_change(Configs) ==
    /\ app = "running"
    /\ \E mcim_config \in Configs :
          /\ mcim_config # config
          /\ config' = mcim_config
          /\ enabled' = mcim_config.redis_cache
          /\ config_file' = [kind |-> "json", data |-> mcim_config]
          /\ app_mcim_config' = mcim_config
    /\ UNCHANGED <<store, queue, queue_up, cache, now, task,
                   written, app, defaults, imported, watcher, callback, sync>>

----------------------------------------------------------------------------
(* Calls of the queue functions from a task *)

AddFuncs ==
    {"add_modrinth_project_ids_to_queue", "add_modrinth_version_ids_to_queue",
     "add_modrinth_hashes_to_queue"}

call_add(func, args, up, q) ==
    CASE func = "add_modrinth_project_ids_to_queue" ->
            add_modrinth_project_ids_to_queue(up, q, args[1])
      [] func = "add_modrinth_version_ids_to_queue" ->
            add_modrinth_version_ids_to_queue(up, q, args[1])
      [] func = "add_modrinth_hashes_to_queue" ->
            add_modrinth_hashes_to_queue(up, q, args[1], args[2])

\* a task calls a queue function with a list of keys
AddCall(t, func, args) ==
    /\ app = "running"
    /\ task[t].pc = "idle"
    /\ task' = [task EXCEPT ![t] =
                  [IdleTask EXCEPT !.func = func, !.args = args, !.pc = "sadd"]]
    /\ UNCHANGED <<store, queue, queue_up, cache, enabled, now,
                   written, app, config, defaults, imported, background>>

CALL_add_modrinth_project_ids_to_queue(t, K) ==
    \E ids \in ReqLists(K) : AddCall(t, "add_modrinth_project_ids_to_queue", <<ids>>)
CALL_add_modrinth_version_ids_to_queue(t, K) ==
    \E ids \in ReqLists(K) : AddCall(t, "add_modrinth_version_ids_to_queue", <<ids>>)
CALL_add_modrinth_hashes_to_queue(t, K) ==
    \E hs \in ReqLists(K), a \in Algorithms :
        AddCall(t, "add_modrinth_hashes_to_queue", <<hs, a>>)

\* the function runs to its await: the keys are filtered and SADD is applied
SAdd(t) ==
    /\ task[t].pc = "sadd"
    /\ LET out == call_add(task[t].func, task[t].args, queue_up, queue)
       IN /\ queue' = out.queue
          /\ task' = [task EXCEPT ![t] =
                        [IdleTask EXCEPT !.func = task[t].func,
                                         !.result = IF out.raised
                                                    THEN Raised("ConnectionError")
                                                    ELSE [returned |-> TRUE],
                                         !.enq = out.enq,
                                         !.held = Held(out.enq, queue)]]
    /\ UNCHANGED <<store, queue_up, cache, enabled, now, written,
                   app, config, defaults, imported, background>>

----------------------------------------------------------------------------
(* The configuration: app/config/mcim.py *)

\* max_file_size: int = 1024 * 1024 * 20
MAX_FILE_SIZE == 20971520

\* class FileCDNRedirectMode
RedirectModes == {"origin", "open93home", "pysio"}

\* MCIMConfigModel(): the fields the handlers read, with their default values.
\* A url is the sequence of its parts: "https://pysio.online" is the scheme
\* followed by the host
DefaultConfig ==
    [redis_cache |-> TRUE, file_cdn |-> FALSE, file_cdn_redirect_mode |-> "origin",
     max_file_size |-> MAX_FILE_SIZE,
     open93home_endpoint |-> <<"http://", "open93home">>,
     pysio_endpoint |-> <<"https://", "pysio.online">>,
     expire_second |->
        [modrinth |-> [project |-> EXPIRE_MODRINTH_PROJECT,
                       version |-> EXPIRE_MODRINTH_VERSION,
                       file |-> EXPIRE_MODRINTH_FILE],
         curseforge |-> [mod |-> EXPIRE_CURSEFORGE_MOD,
                         file |-> EXPIRE_CURSEFORGE_FILE]]]

\* headers: dict = {} in BaseResponse.__init__ and TrustableResponse.__init__:
\* one dict object per constructor, created when the function is defined and
\* shared by every call that passes no headers
NoDefaults == [BaseResponse |-> NoHeaders, TrustableResponse |-> NoHeaders]

----------------------------------------------------------------------------
(* The MCIM configuration file, the ConfigWatcher thread and the callbacks *)

\* a configuration file: kind "json" is a JSON document the model class
\* accepts (data is what it parses to), "bad_field" a JSON document the model
\* class rejects, "not_json" a file json.load rejects, "missing" no file
JsonFile(data) == [kind |-> "json", data |-> data]
NotJsonFile == [kind |-> "not_json", data |-> DefaultConfig]
BadFieldFile == [kind |-> "bad_field", data |-> DefaultConfig]
MissingFile == [kind |-> "missing", data |-> DefaultConfig]

\* the results of validate: (is_valid, error_message, config), config None
\* written as the empty sequence
Invalid(error_message) ==
    [is_valid |-> FALSE, error_message |-> error_message, config |-> <<>>]
Valid(cfg) == [is_valid |-> TRUE, error_message |-> "", config |-> <<cfg>>]

\* a validation that accepts every file
validate_any(target) == Valid(target.data)

\* BaseConfig.validate(target)
validate(target) ==
    CASE target.kind = "missing" -> Invalid("file does not exist")
      [] target.kind = "not_json" -> Invalid("invalid JSON")
      [] target.kind = "bad_field" -> Invalid("validation failed")
      [] OTHER -> Valid(target.data)

\* load(target): the configuration read from the file, or the exception of
\* json.load or of the model class; a missing file is first written with the
\* default model (after is the file when load returns)
load(target) ==
    CASE target.kind = "missing" ->
            [raised |-> "", config |-> DefaultConfig, after |-> JsonFile(DefaultConfig)]
      [] target.kind = "not_json" ->
            [raised |-> "JSONDecodeError", config |-> DefaultConfig, after |-> target]
      [] target.kind = "bad_field" ->
            [raised |-> "ValidationError", config |-> DefaultConfig, after |-> target]
      [] OTHER -> [raised |-> "", config |-> target.data, after |-> target]

\* ConfigManager._reload_config: the loaded instance is replaced unless load
\* raises; ok is the value returned
_reload_config(instance, target) ==
    LET loaded == load(target) IN
    IF loaded.raised = ""
    THEN [ok |-> TRUE, instance |-> loaded.config, after |-> loaded.after]
    ELSE [ok |-> FALSE, instance |-> instance, after |-> loaded.after]

\* ConfigManager._validate_config_file for the MCIM configuration path
_validate_config_file(target) == validate(target)

\* the watcher waits in watch(); pending: the file changed since the last
\* batch of changes was yielded; changes counts the changes of the file;
\* seen is the kind of the file the last validation read
IdleWatcher == [pc |-> "watch", pending |-> FALSE, changes |-> 0, seen |-> ""]

\* a thread running on_mcim_config_change in an event loop of its own
NewCallback == [pc |-> "start", redis_cache |-> FALSE]

\* how many times the configuration file is changed
MaxChanges == 2

\* somebody writes, replaces or removes the configuration file
FileChange(Files) ==
    /\ watcher.changes < MaxChanges
    /\ \E f \in Files :
          /\ f # config_file
          /\ config_file' = f
    /\ watcher' = [watcher EXCEPT !.pending = TRUE, !.changes = @ + 1]
    /\ UNCHANGED <<store, queue, queue_up, cache, enabled, now, task, written, app,
                   config, defaults, imported, callback, app_mcim_config, sync>>

\* _run_watcher: watch() yields the changes of the debounce period
WatchYields ==
    /\ watcher.pc = "watch"
    /\ watcher.pending
    /\ watcher' = [watcher EXCEPT !.pc = "validate", !.pending = FALSE]
    /\ UNCHANGED <<store, queue, queue_up, cache, enabled, now, task, written, app,
                   config, defaults, imported, config_file, callback, app_mcim_config, sync>>

\* _run_watcher: the changed path matches the configuration path and the
\* file is validated; an invalid file is skipped
WatcherValidates ==
    /\ watcher.pc = "validate"
    /\ LET is_valid == _validate_config_file(config_file).is_valid IN
       watcher' = [watcher EXCEPT !.pc = IF is_valid THEN "reload" ELSE "watch",
                                  !.seen = config_file.kind]
    /\ UNCHANGED <<store, queue, queue_up, cache, enabled, now, task, written, app,
                   config, defaults, imported, config_file, callback, app_mcim_config, sync>>

\* _run_watcher: the first self._reload_config(config_name)
WatcherReloads ==
    /\ watcher.pc = "reload"
    /\ LET r == _reload_config(config, config_file) IN
          /\ config' = r.instance
          /\ config_file' = r.after
          /\ watcher' = [watcher EXCEPT !.pc = IF r.ok THEN "reload_again" ELSE "watch"]
    /\ UNCHANGED <<store, queue, queue_up, cache, enabled, now, task, written, app,
                   defaults, imported, callback, app_mcim_config, sync>>

\* _run_watcher: the second self._reload_config(config_name); when it
\* succeeds a thread is started for the registered asynchronous callback
WatcherReloadsAgain ==
    /\ watcher.pc = "reload_again"
    /\ LET r == _reload_config(config, config_file) IN
          /\ config' = r.instance
          /\ config_file' = r.after
          /\ callback' = IF r.ok /\ app = "running"
                         THEN Append(callback, NewCallback) ELSE callback
    /\ watcher' = [watcher EXCEPT !.pc = "watch"]
    /\ UNCHANGED <<store, queue, queue_up, cache, enabled, now, task, written, app,
                   defaults, imported, app_mcim_config, sync>>

\* on_mcim_config_change in thread i:
\*   mcim_config = config_manager.mcim_config
CallbackLoads(i) ==
    /\ callback[i].pc = "start"
    /\ app_mcim_config' = config
    /\ callback' = [callback EXCEPT ![i].pc = "loaded"]
    /\ UNCHANGED <<store, queue, queue_up, cache, enabled, now, task, written, app,
                   config, defaults, imported, config_file, watcher, sync>>

\*   if mcim_config.redis_cache:
CallbackBranches(i) ==
    /\ callback[i].pc = "loaded"
    /\ callback' = [callback EXCEPT ![i].pc = "branched",
                                    ![i].redis_cache = app_mcim_config.redis_cache]
    /\ UNCHANGED <<store, queue, queue_up, cache, enabled, now, task, written, app,
                   config, defaults, imported, config_file, watcher, app_mcim_config, sync>>

\*   if not fastapi_cache.is_enabled():   (if fastapi_cache.is_enabled(): in
\*   the else branch)
CallbackTests(i) ==
    /\ callback[i].pc = "branched"
    /\ callback' = [callback EXCEPT
                      ![i].pc = IF enabled # callback[i].redis_cache
                                THEN "toggle" ELSE "done"]
    /\ UNCHANGED <<store, queue, queue_up, cache, enabled, now, task, written, app,
                   config, defaults, imported, config_file, watcher, app_mcim_config, sync>>

\*   fastapi_cache.enable()   (fastapi_cache.disable() in the else branch)
CallbackToggles(i) ==
    /\ callback[i].pc = "toggle"
    /\ enabled' = callback[i].redis_cache
    /\ callback' = [callback EXCEPT ![i].pc = "done"]
    /\ UNCHANGED <<store, queue, queue_up, cache, now, task, written, app,
                   config, defaults, imported, config_file, watcher, app_mcim_config, sync>>

----------------------------------------------------------------------------
(* The sync worker *)

\* params = {"index": 0, "pageSize": 50}
PAGE_SIZE == 50
\* the largest totalCount the upstream reports for the files of a mod
MaxTotalCount == 101

\* Pagination(**res["pagination"]) of a page of files: the upstream echoes
\* the index and the page size of the request
Pagination(index, pageSize, totalCount) ==
    [index |-> index, pageSize |-> pageSize, totalCount |-> totalCount]

\* no sync function is running.  func and args are the function called last
\* and its argument, at the time of the call, todo the mods that
\* sync_multi_mods_all_files has still to hand to sync_mod_all_files, fetched
\* the entities fetched from the upstream, requested the index of each page of
\* files requested for the mod being synchronised, page the pagination of the
\* last answer.  The documents a page yields are saved by submit_models; the
\* model keeps the requests and not the documents of the files
IdleSync ==
    [pc |-> "idle", func |-> "", args |-> <<>>, at |-> 0, todo |-> <<>>,
     fetched |-> <<>>, requested |-> <<>>, page |-> Pagination(0, 0, 0)]

\* list.remove(x): the list without the first occurrence of x
list_remove(l, x) ==
    LET i == CHOOSE i \in 1..Len(l) : l[i] = x /\ \A j \in 1..(i - 1) : l[j] # x
    IN SubSeq(l, 1, i - 1) \o SubSeq(l, i + 1, Len(l))

\* for model in models:
\*     if time.time() <= model.sync_at.timestamp() + expire: ids.remove(model.id)
RECURSIVE remove_not_expired(_, _, _, _)
remove_not_expired(ids, models, expire, time) ==
    IF models = <<>> THEN ids
    ELSE remove_not_expired(IF is_expired(Head(models), expire, time)
                            THEN ids ELSE list_remove(ids, Head(models).id),
                            Tail(models), expire, time)

\* list(set(modIds)): the members once each, in an order of Python's choosing
Orders(S) == {o \in [1..Cardinality(S) -> S] : Range(o) = S}

\* the versions the upstream lists for a project
UpstreamVersions(project_id) ==
    SelectSeq(VersionPool, LAMBDA v : v.project_id = project_id)

RECURSIVE UpsertAll(_, _)
UpsertAll(coll, docs) ==
    IF docs = <<>> THEN coll ELSE UpsertAll(Upsert(coll, Head(docs)), Tail(docs))

\* sync_project_all_version(project_id, verify_expire=True) for each id of the
\* list: the versions of the project are requested from the upstream and
\* saved; with verify_expire=True the function does not look at sync_at
RECURSIVE sync_projects_all_version(_, _)
sync_projects_all_version(versions, project_ids) ==
    IF project_ids = <<>> THEN versions
    ELSE sync_projects_all_version(
            UpsertAll(versions, UpstreamVersions(Head(project_ids))), Tail(project_ids))

\* sync_multi_projects_all_version(project_ids): the stored projects that are
\* not expired are removed from the list, the rest is synchronised
SYNC_multi_projects_all_version(K) ==
    /\ sync.pc = "idle"
    /\ \E project_ids \in ReqLists(K) :
          LET mod_models == find(store.Project, LAMBDA d : d.id \in Range(project_ids))
              rest == remove_not_expired(project_ids, mod_models,
                                         imported.expire_second.modrinth.project, now)
          IN /\ sync' = [IdleSync EXCEPT !.func = "sync_multi_projects_all_version",
                                         !.args = project_ids, !.at = now,
                                         !.fetched = rest]
             /\ store' = [store EXCEPT
                            !.Version = sync_projects_all_version(@, rest)]
    /\ UNCHANGED <<queue, queue_up, cache, enabled, now, task, written, app, config,
                   defaults, imported, config_file, watcher, callback, app_mcim_config>>

\* sync_multi_mods_all_files(modIds), up to its loop: the ids are deduplicated
\* and the stored mods that are not expired are removed
SYNC_multi_mods_all_files(K) ==
    /\ sync.pc = "idle"
    /\ \E modIds \in ReqLists(K) : \E deduplicated \in Orders(Range(modIds)) :
          LET mod_models == find(store.Mod, LAMBDA d : d.id \in Range(deduplicated))
              rest == remove_not_expired(deduplicated, mod_models,
                                         imported.expire_second.curseforge.mod, now)
          IN sync' = [IdleSync EXCEPT !.func = "sync_multi_mods_all_files",
                                      !.args = modIds, !.at = now, !.todo = rest,
                                      !.pc = IF rest = <<>> THEN "idle" ELSE "multi"]
    /\ UNCHANGED <<store, queue, queue_up, cache, enabled, now, task, written, app,
                   config, defaults, imported, config_file, watcher, callback,
                   app_mcim_config>>

\* sync_mod_all_files up to its loop: the first page is requested at index 0
\* with pageSize 50 (totalCount is what the upstream reports)
first_page(sy, modId, totalCount) ==
    [sy EXCEPT !.pc = "loop", !.fetched = Append(@, modId), !.requested = <<0>>,
               !.page = Pagination(0, PAGE_SIZE, totalCount)]

\* for modId in modIds: sync_mod_all_files(modId, verify_expire=True)
SyncNextMod(Totals) ==
    /\ sync.pc = "multi"
    /\ \E totalCount \in Totals :
          sync' = first_page([sync EXCEPT !.todo = Tail(@)], Head(sync.todo), totalCount)
    /\ UNCHANGED <<store, queue, queue_up, cache, enabled, now, task, written, app,
                   config, defaults, imported, config_file, watcher, callback,
                   app_mcim_config>>

\* sync_mod_all_files(modId): with verify_expire left False the function
\* returns when the stored mod is not expired
SYNC_mod_all_files(K, Totals) ==
    /\ sync.pc = "idle"
    /\ \E modId \in K, totalCount \in Totals :
          LET mod_model == find(store.Mod, LAMBDA d : d.id = modId)
              called == [IdleSync EXCEPT !.func = "sync_mod_all_files",
                                         !.args = <<modId>>, !.at = now]
          IN sync' = IF mod_model # <<>>
                        /\ ~is_expired(mod_model[1],
                                       imported.expire_second.curseforge.mod, now)
                     THEN called
                     ELSE first_page(called, modId, totalCount)
    /\ UNCHANGED <<store, queue, queue_up, cache, enabled, now, task, written, app,
                   config, defaults, imported, config_file, watcher, callback,
                   app_mcim_config>>

\* while page.index < page.totalCount - 1:
more_pages(page) == page.index < page.totalCount - 1

\* the body of the loop: the page at index + pageSize is requested
SyncPage ==
    /\ sync.pc = "loop"
    /\ more_pages(sync.page)
    /\ LET index == sync.page.index + sync.page.pageSize
       IN sync' = [sync EXCEPT !.requested = Append(@, index),
                               !.page = Pagination(index, sync.page.pageSize,
                                                   sync.page.totalCount)]
    /\ UNCHANGED <<store, queue, queue_up, cache, enabled, now, task, written, app,
                   config, defaults, imported, config_file, watcher, callback,
                   app_mcim_config>>

\* the loop ends and sync_mod_all_files returns
SyncPagesEnd ==
    /\ sync.pc = "loop"
    /\ ~more_pages(sync.page)
    /\ sync' = [sync EXCEPT !.pc = IF sync.todo = <<>> THEN "idle" ELSE "multi"]
    /\ UNCHANGED <<store, queue, queue_up, cache, enabled, now, task, written, app,
                   config, defaults, imported, config_file, watcher, callback,
                   app_mcim_config>>

\* no file change is being processed, no callback thread and no sync
\* function runs
Quiet ==
    /\ config_file = JsonFile(config)
    /\ watcher = IdleWatcher
    /\ callback = <<>>
    /\ app_mcim_config = config
    /\ sync = IdleSync

----------------------------------------------------------------------------
(* Initial states *)

InitTasks == [t \in Tasks |-> IdleTask]

\* the running application with the cache switched off (redis_cache false):
\* every request goes to its handler
InitDirect ==
    /\ queue = EmptyQueues
    /\ queue_up = TRUE
    /\ cache = NoCache
    /\ enabled = FALSE
    /\ now = 0
    /\ task = InitTasks
    /\ written = NoCache
    /\ app = "running"
    /\ config = [DefaultConfig EXCEPT !.redis_cache = enabled]
    /\ defaults = NoDefaults
    /\ imported = config
    /\ Quiet

----------------------------------------------------------------------------
(* Batch lookups of modrinth_projects, curseforge_mods and curseforge_files *)

InitPartial ==
    /\ InitDirect
    /\ \E ps \in SubSeqs(ProjectPool), ms \in SubSeqs(ModPool), fs \in SubSeqs(CFFilePool) :
          store = [EmptyStore EXCEPT !.Project = ps, !.Mod = ms, !.CFFile = fs]

NextPartial ==
    \/ GET_modrinth_projects(1, ProjectKeys)
    \/ POST_curseforge_mods(1, ModIds)
    \/ POST_curseforge_files(1, FileIds)
    \/ Handler(1)

SpecPartial == InitPartial /\ [][NextPartial]_vars


----------------------------------------------------------------------------
(* Batch lookups that may find nothing: modrinth_projects, modrinth_versions, *)
(* curseforge_mods and curseforge_fingerprints                                *)

InitEmpty ==
    /\ InitDirect
    /\ \E ps \in SubSeqs(<<ProjectPool[1]>>), vs \in SubSeqs(<<VersionPool[1]>>) :
          store = [EmptyStore EXCEPT !.Project = ps, !.Version = vs]

NextEmpty ==
    \/ GET_modrinth_projects(1, {"PA", "PB"})
    \/ GET_modrinth_versions(1, {V1, VShort})
    \/ POST_curseforge_mods(1, {ModPool[1].id})
    \/ POST_curseforge_fingerprints(1, {FingerprintPool[1].id})
    \/ Handler(1)
    \/ BackendDown
    \/ BackendUp

SpecEmpty == InitEmpty /\ [][NextEmpty]_vars

----------------------------------------------------------------------------
(* Lookups of Modrinth versions *)

InitVersions ==
    /\ InitDirect
    /\ \E vs \in SubSeqs(VersionPool) : store = [EmptyStore EXCEPT !.Version = vs]

NextVersions ==
    \/ GET_modrinth_versions(1, VersionKeys)
    \/ GET_modrinth_version(1, VersionKeys)
    \/ Handler(1)

SpecVersions == InitVersions /\ [][NextVersions]_vars

----------------------------------------------------------------------------
(* Single-entity lookups *)

InitDetail ==
    /\ InitDirect
    /\ \E ps \in SubSeqs(<<ProjectPool[1]>>), fs \in SubSeqs(<<FilePool[1]>>),
          ms \in SubSeqs(<<ModPool[1]>>) :
          store = [EmptyStore EXCEPT !.Project = ps, !.File = fs, !.Mod = ms]

NextDetail ==
    \/ GET_modrinth_project(1, {"PA", "sa"})
    \/ GET_modrinth_version(1, {V1, VLong, VShort})
    \/ GET_modrinth_file(1, {H1Sha1, H1Sha512, HBad})
    \/ GET_curseforge_mod(1, {30001})
    \/ GET_curseforge_mod_file(1, ModIds, {530001})
    \/ Handler(1)
    \/ BackendDown
    \/ BackendUp

SpecDetail == InitDetail /\ [][NextDetail]_vars

----------------------------------------------------------------------------
(* Detail lookups while time passes and the worker refreshes the store *)

InitFresh ==
    /\ InitDirect
    /\ \E ps \in SubSeqs(ProjectPool), ms \in SubSeqs(<<ModPool[1]>>) :
          store = [EmptyStore EXCEPT !.Project = ps, !.Mod = ms]

NextFresh ==
    \/ GET_modrinth_project(1, {"PA", "sa"})
    \/ GET_curseforge_mod(1, {30001})
    \/ Handler(1)
    \/ Tick
    \/ WorkerSync("Project", <<ProjectPool[1]>>)
    \/ WorkerSync("Mod", <<ModPool[1]>>)

SpecFresh == InitFresh /\ [][NextFresh]_vars

----------------------------------------------------------------------------
(* Concurrent calls of the queue functions *)

InitQueue ==
    /\ InitDirect
    /\ store = EmptyStore

NextQueue ==
    \/ \E t \in Tasks :
          \/ CALL_add_modrinth_project_ids_to_queue(t, {"PA"})
          \/ CALL_add_modrinth_version_ids_to_queue(t, {V1})
          \/ CALL_add_modrinth_hashes_to_queue(t, {H1Sha1})
          \/ SAdd(t)
    \/ WorkerPop

SpecQueue == InitQueue /\ [][NextQueue]_vars

----------------------------------------------------------------------------
(* Calls of the queue functions with keys of every shape *)

NextShape ==
    \/ CALL_add_modrinth_version_ids_to_queue(1, {V1, VShort, VLong, VBad})
    \/ CALL_add_modrinth_hashes_to_queue(1, {H1Sha1, H1Sha512, HBad})
    \/ SAdd(1)

SpecShape == InitQueue /\ [][NextShape]_vars

----------------------------------------------------------------------------
(* Lookups while the queue backend comes and goes *)

InitQueueFail ==
    /\ InitDirect
    /\ \E ps \in SubSeqs(ProjectPool) : store = [EmptyStore EXCEPT !.Project = ps]

NextQueueFail ==
    \/ GET_modrinth_project(1, ProjectKeys)
    \/ GET_modrinth_projects(1, ProjectKeys)
    \/ Handler(1)
    \/ BackendDown
    \/ BackendUp

SpecQueueFail == InitQueueFail /\ [][NextQueueFail]_vars

----------------------------------------------------------------------------
(* The application's lifespan: app/__init__.py *)

\* lifespan, up to its yield: the engines are created,
\*   await app.state.aio_redis_engine.flushall()
\* empties the Redis server (FLUSHALL removes the keys of every database, and
\* the cache database and the sync-queue database are databases of the one
\* server of the redis config), and the cache is initialised with
\* enabled=mcim_config.redis_cache
Startup ==
    /\ app = "stopped"
    /\ app' = "running"
    /\ cache' = NoCache
    /\ written' = NoCache
    /\ queue' = EmptyQueues
    /\ \E redis_cache \in BOOLEAN :
          /\ config' = [config EXCEPT !.redis_cache = redis_cache]
          /\ imported' = config'
          /\ enabled' = redis_cache
    /\ task' = InitTasks
    /\ UNCHANGED <<store, queue_up, now, defaults, background>>

\* lifespan, after its yield: the callbacks are unregistered and the engines
\* closed, once the server has let the running requests finish
Shutdown ==
    /\ app = "running"
    /\ \A t \in Tasks : task[t].pc = "idle"
    /\ app' = "stopped"
    /\ UNCHANGED <<store, queue, queue_up, cache, enabled, now,
                   task, written, config, defaults, imported, background>>

InitLifecycle ==
    /\ queue = EmptyQueues
    /\ queue_up = TRUE
    /\ cache = NoCache
    /\ enabled = FALSE
    /\ now = 0
    /\ task = InitTasks
    /\ written = NoCache
    /\ app = "stopped"
    /\ config = DefaultConfig
    /\ defaults = NoDefaults
    /\ imported = config
    /\ Quiet
    /\ \E ps \in SubSeqs(<<ProjectPool[1]>>) : store = [EmptyStore EXCEPT !.Project = ps]

NextLifecycle ==
    \/ Startup
    \/ Shutdown
    \/ GET_modrinth_project(1, {"PA", "PB"})
    \/ GET_modrinth_versions(1, {V1, V2})
    \/ CacheGet(1)
    \/ Handler(1)
    \/ CacheSet(1)
    \/ WorkerPop

SpecLifecycle == InitLifecycle /\ [][NextLifecycle]_vars

----------------------------------------------------------------------------
(* Requests through the response cache *)

InitCache ==
    /\ queue = EmptyQueues
    /\ queue_up = TRUE
    /\ cache = NoCache
    /\ enabled = TRUE
    /\ now = 0
    /\ task = InitTasks
    /\ written = NoCache
    /\ app = "running"
    /\ config = [DefaultConfig EXCEPT !.redis_cache = enabled]
    /\ defaults = NoDefaults
    /\ imported = config
    /\ Quiet
    /\ \E ps \in SubSeqs(<<ProjectPool[1]>>) : store = [EmptyStore EXCEPT !.Project = ps]

NextCache ==
    \/ \E t \in Tasks :
          \/ GET_modrinth_project(t, {"PA"})
          \/ CacheGet(t)
          \/ Handler(t)
          \/ CacheSet(t)
    \/ Tick
    \/ WorkerSync("Project", <<ProjectPool[1]>>)

SpecCache == InitCache /\ [][NextCache]_vars

\* the cache bypass: calls with and without force=True while the cache is
\* switched off and on at runtime
CALL_modrinth_project(t, K) ==
    \E k \in K : \E force \in BOOLEAN : Call(t, "modrinth_project", <<k>>, force)

NextBypass ==
    \/ \E t \in Tasks :
          \/ CALL_modrinth_project(t, {"PA"})
          \/ CacheGet(t)
          \/ Handler(t)
          \/ CacheSet(t)
    \/ on_mcim_config_change({[DefaultConfig EXCEPT !.redis_cache = b] : b \in BOOLEAN})
    \/ WorkerSync("Project", <<ProjectPool[1]>>)

SpecBypass == InitCache /\ [][NextBypass]_vars

\* the response constructors called one after another, by any caller: with
\* and without a headers argument, with and without content, with status 200
\* and with another status.  hs is <<>> for a call without headers argument
\* and <<dict>> for a call that passes a dict of its own
Contents == {JNull, JObj("x")}
Statuses == {HTTP_OK, HTTP_NOT_FOUND}
HeaderArgs == {<<>>, <<[h \in {"Cache-Control"} |-> "max-age=3600"]>>}

Built(t, func, args, r) ==
    /\ app = "running"
    /\ task[t].pc = "idle"
    /\ task' = [task EXCEPT ![t] =
                  [IdleTask EXCEPT !.func = func, !.args = args, !.result = r,
                                   !.at = now]]

NEW_BaseResponse(t) ==
    /\ \E content \in Contents, status_code \in Statuses, hs \in HeaderArgs :
          LET headers == IF hs = <<>> THEN defaults.BaseResponse ELSE hs[1]
              r == BaseResponse(content, status_code, headers)
          IN /\ Built(t, "BaseResponse",
                      [content |-> content, status_code |-> status_code, headers |-> hs], r)
             /\ defaults' = IF hs = <<>>
                            THEN [defaults EXCEPT !.BaseResponse = r.headers]
                            ELSE defaults
    /\ UNCHANGED <<store, queue, queue_up, cache, enabled, now,
                   written, app, config, imported, background>>

NEW_TrustableResponse(t) ==
    /\ \E content \in Contents, status_code \in Statuses, hs \in HeaderArgs,
          trustable \in BOOLEAN :
          LET headers == IF hs = <<>> THEN defaults.TrustableResponse ELSE hs[1]
              r == TrustableResponse(status_code, content, headers, trustable)
          IN /\ Built(t, "TrustableResponse",
                      [content |-> content, status_code |-> status_code, headers |-> hs,
                       trustable |-> trustable], r)
             /\ defaults' = IF hs = <<>>
                            THEN [defaults EXCEPT !.TrustableResponse = r.headers]
                            ELSE defaults
    /\ UNCHANGED <<store, queue, queue_up, cache, enabled, now,
                   written, app, config, imported, background>>

NEW_UncachedResponse(t) ==
    /\ Built(t, "UncachedResponse", <<>>, UncachedResponse)
    /\ UNCHANGED <<store, queue, queue_up, cache, enabled, now,
                   written, app, config, defaults, imported, background>>

NextResponse ==
    \E t \in {1, 2} :
       \/ NEW_BaseResponse(t)
       \/ NEW_TrustableResponse(t)
       \/ NEW_UncachedResponse(t)

SpecResponse == InitCache /\ [][NextResponse]_vars

\* the file routes under every setting of file_cdn and file_cdn_redirect_mode,
\* changed while the application runs, behind the response cache.  The store
\* holds or lacks a Modrinth file and a CurseForge file that are cached and
\* within the size limit
GET_get_modrinth_file(t, P, V, N) ==
    \E project_id \in P, version_id \in V, file_name \in N :
       Request(t, "get_modrinth_file", <<project_id, version_id, file_name>>)
GET_get_curseforge_file(t, F1, F2, N) ==
    \E fileid1 \in F1, fileid2 \in F2, file_name \in N :
       Request(t, "get_curseforge_file", <<fileid1, fileid2, file_name>>)

CdnFilePool == <<MRFileDoc("PA", V1, "a.jar", MAX_FILE_SIZE, TRUE, "s1")>>
CdnCFFilePool ==
    <<CFFileLengthDoc(530012, "a.jar", MAX_FILE_SIZE, TRUE,
                      <<[algo |-> 1, value |-> "s2"], [algo |-> 2, value |-> "m2"]>>)>>

CdnConfigs ==
    {[DefaultConfig EXCEPT !.file_cdn = c, !.file_cdn_redirect_mode = m] :
        c \in BOOLEAN, m \in RedirectModes}

InitFileCdn ==
    /\ queue = EmptyQueues
    /\ queue_up = TRUE
    /\ cache = NoCache
    /\ enabled = TRUE
    /\ now = 0
    /\ task = InitTasks
    /\ written = NoCache
    /\ app = "running"
    /\ config = DefaultConfig
    /\ defaults = NoDefaults
    /\ imported = config
    /\ Quiet
    /\ \E fs \in SubSeqs(CdnFilePool), cs \in SubSeqs(CdnCFFilePool) :
          store = [EmptyStore EXCEPT !.File = fs, !.CFFile = cs]

NextFileCdn ==
    \/ GET_get_modrinth_file(1, {"PA"}, {V1}, {"a.jar"})
    \/ GET_get_curseforge_file(1, {5300, 52}, {12}, {"a.jar"})
    \/ CacheGet(1)
    \/ Handler(1)
    \/ CacheSet(1)
    \/ on_mcim_config_change(CdnConfigs)

SpecFileCdn == InitFileCdn /\ [][NextFileCdn]_vars

\* the file routes over a store whose Modrinth file and CurseForge file are
\* cached and within the limit, over the limit, or not cached, while the
\* configuration changes and the queue backend goes down and comes back
FileStates == {<<MAX_FILE_SIZE, TRUE>>, <<MAX_FILE_SIZE + 1, TRUE>>,
               <<MAX_FILE_SIZE, FALSE>>}
MirrorFiles ==
    {<<>>} \cup {<<MRFileDoc("PA", V1, "a.jar", fs[1], fs[2], "s1")>> : fs \in FileStates}
MirrorCFFiles ==
    {<<>>} \cup {<<CFFileLengthDoc(530012, "a.jar", fs[1], fs[2], CdnCFFilePool[1].hashes)>> :
                    fs \in FileStates}

InitMirror ==
    /\ queue = EmptyQueues
    /\ queue_up = TRUE
    /\ cache = NoCache
    /\ enabled = TRUE
    /\ now = 0
    /\ task = InitTasks
    /\ written = NoCache
    /\ app = "running"
    /\ config = DefaultConfig
    /\ defaults = NoDefaults
    /\ imported = config
    /\ Quiet
    /\ \E fs \in MirrorFiles, cs \in MirrorCFFiles :
          store = [EmptyStore EXCEPT !.File = fs, !.CFFile = cs]

NextMirror ==
    \/ GET_get_modrinth_file(1, {"PA"}, {V1}, {"a.jar"})
    \/ GET_get_curseforge_file(1, {5300}, {12}, {"a.jar"})
    \/ CacheGet(1)
    \/ Handler(1)
    \/ CacheSet(1)
    \/ on_mcim_config_change(CdnConfigs)
    \/ BackendDown
    \/ BackendUp

SpecMirror == InitMirror /\ [][NextMirror]_vars

\* the two fingerprint routes over a store that holds none, one or both of two
\* fingerprints, asked for lists of stored and unknown fingerprints
FingerprintKeys == Ids(FingerprintPool) \cup {99}

InitFingerprints ==
    /\ InitDirect
    /\ \E fs \in SubSeqs(FingerprintPool) : store = [EmptyStore EXCEPT !.Fingerprint = fs]

NextFingerprints ==
    \/ POST_curseforge_fingerprints(1, FingerprintKeys)
    \/ POST_curseforge_fingerprints_432(1, FingerprintKeys)
    \/ Handler(1)

SpecFingerprints == InitFingerprints /\ [][NextFingerprints]_vars

\* POST /version_files over a store that holds a version with two files, each
\* file and the version present or not
VersionFilesPool == <<VersionFilesDoc(V1, "PA", FilePool)>>
FilesOfVersionPool ==
    <<FileDoc(H1Sha1, H1Sha512, V1), FileDoc(H2Sha1, H2Sha512, V1)>>

InitVersionFiles ==
    /\ InitDirect
    /\ \E fs \in SubSeqs(FilesOfVersionPool), vs \in SubSeqs(VersionFilesPool) :
          store = [EmptyStore EXCEPT !.File = fs, !.Version = vs]

NextVersionFiles ==
    \/ POST_modrinth_files(1, {H1Sha1, H2Sha1, H2Sha512}, Algorithms)
    \/ Handler(1)

SpecVersionFiles == InitVersionFiles /\ [][NextVersionFiles]_vars

\* a cached detail route and the batch route of two queries while the document
\* store may fail at any query
InitStoreDown ==
    /\ queue = EmptyQueues
    /\ queue_up = TRUE
    /\ cache = NoCache
    /\ enabled = TRUE
    /\ now = 0
    /\ task = InitTasks
    /\ written = NoCache
    /\ app = "running"
    /\ config = DefaultConfig
    /\ defaults = NoDefaults
    /\ imported = config
    /\ Quiet
    /\ \E ps \in SubSeqs(<<ProjectPool[1]>>), fs \in SubSeqs(FilesOfVersionPool) :
          store = [EmptyStore EXCEPT !.Project = ps, !.File = fs,
                                     !.Version = VersionFilesPool]

NextStoreDown ==
    \/ GET_modrinth_project(1, {"PA"})
    \/ POST_modrinth_files(2, {H1Sha1, H2Sha1}, {"sha1"})
    \/ \E t \in {1, 2} :
       \/ CacheGet(t)
       \/ Handler(t)
       \/ HandlerStoreDown(t)
       \/ CacheSet(t)

SpecStoreDown == InitStoreDown /\ [][NextStoreDown]_vars

\* a cached detail route and a cached file route while the configured expiry
\* of the entity kind and the redirect mode change at run time
ExpireConfigs ==
    {[DefaultConfig EXCEPT !.file_cdn_redirect_mode = m,
                           !.expire_second.modrinth.project = p] :
        m \in {"origin", "open93home"},
        p \in {EXPIRE_MODRINTH_PROJECT, EXPIRE_MODRINTH_PROJECT \div 2}}

InitExpire ==
    /\ queue = EmptyQueues
    /\ queue_up = TRUE
    /\ cache = NoCache
    /\ enabled = TRUE
    /\ now = 0
    /\ task = InitTasks
    /\ written = NoCache
    /\ app = "running"
    /\ config \in ExpireConfigs
    /\ defaults = NoDefaults
    /\ imported = config
    /\ Quiet
    /\ store = [EmptyStore EXCEPT !.Project = <<ProjectPool[1]>>, !.File = CdnFilePool]

NextExpire ==
    \/ GET_modrinth_project(1, {"PA"})
    \/ GET_get_modrinth_file(1, {"PA"}, {V1}, {"a.jar"})
    \/ CacheGet(1)
    \/ Handler(1)
    \/ CacheSet(1)
    \/ Tick
    \/ on_mcim_config_change(ExpireConfigs)

SpecExpire == InitExpire /\ [][NextExpire]_vars

\* the redirects the file routes build, one after another: the origin, the
\* alternate host and the partner host of each provider
RedirectKinds == {"origin", "open93home", "pysio"}
redirect_of(provider, kind, cfg, file_name, sha1) ==
    IF provider = "get_modrinth_file"
    THEN CASE kind = "origin" -> modrinth_origin_response("PA", V1, file_name)
           [] kind = "open93home" -> modrinth_open93home_response(cfg, sha1)
           [] kind = "pysio" -> modrinth_pysio_response(cfg, "PA", V1, file_name)
    ELSE CASE kind = "origin" -> curseforge_origin_response(5300, 12, file_name)
           [] kind = "open93home" -> curseforge_open93home_response(cfg, sha1)
           [] kind = "pysio" -> curseforge_pysio_response(cfg, 5300, 12, file_name)

NEW_RedirectResponse(t) ==
    /\ \E provider \in {"get_modrinth_file", "get_curseforge_file"},
          kind \in RedirectKinds, file_name \in {"a.jar", "b.jar"}, sha1 \in {"s1", "s2"} :
          Built(t, provider, <<kind>>,
                redirect_of(provider, kind, config, file_name, sha1))
    /\ UNCHANGED <<store, queue, queue_up, cache, enabled, now,
                   written, app, config, defaults, imported, background>>

NextRedirects == \E t \in Tasks : NEW_RedirectResponse(t)

SpecRedirects == InitCache /\ [][NextRedirects]_vars

\* the decorator around a function that returns any of Results
CALL_func(t, K) == \E k \in K : Call(t, "func", <<k>>, FALSE)

NextWrapper ==
    \/ \E t \in Tasks :
          \/ CALL_func(t, {"k"})
          \/ CacheGet(t)
          \/ Returns(t, Results)
          \/ CacheSet(t)
    \/ Tick

SpecWrapper == InitCache /\ [][NextWrapper]_vars

----------------------------------------------------------------------------
(* What a finished request shows *)

\* the header Trustable of a response
Trustable(r) == r.headers["Trustable"]

\* the keys a handler handed to SADD
EnqKeys(tk) == {e[2] : e \in tk.enq}

\* the list of keys a batch request carries
ReqKeys(tk) == tk.args[1]

\* a document answers a requested key: by its id, and a project also by its slug
Matches(func, key, doc) ==
    IF func \in {"modrinth_project", "modrinth_projects"}
    THEN doc.id = key \/ doc.slug = key
    ELSE doc.id = key

\* the requested keys that no returned document matches
Unmatched(tk) ==
    {k \in Range(ReqKeys(tk)) : \A d \in Range(tk.models) : ~Matches(tk.func, k, d)}

\* the request names every key once
NoRepeat(tk) == Cardinality(Range(ReqKeys(tk))) = Len(ReqKeys(tk))

\* C1: partial-trust law.  A batch lookup (curseforge_mods, curseforge_files,
\* modrinth_projects) of N keys, each named once, for which the store returns M
\* documents: if 0 < M < N the handler enqueues exactly the requested keys that
\* no returned document matches, N - M of them, and answers Trustable: False;
\* if M = N it answers Trustable: True and enqueues nothing.
C1_PartialTrustLaw ==
    \A t \in Tasks :
        LET tk == task[t]
            N == Len(ReqKeys(tk))
            M == Len(tk.models)
        IN (/\ Answered(tk)
            /\ tk.func \in {"curseforge_mods", "curseforge_files", "modrinth_projects"}
            /\ NoRepeat(tk))
           => /\ (0 < M /\ M < N) =>
                    /\ EnqKeys(tk) = Unmatched(tk)
                    /\ Cardinality(EnqKeys(tk)) = N - M
                    /\ Trustable(tk.result) = "False"
              /\ (0 < M /\ M = N) =>
                    /\ Trustable(tk.result) = "True"
                    /\ tk.enq = {}

BatchFuncs ==
    {"modrinth_projects", "modrinth_versions", "curseforge_mods", "curseforge_files",
     "curseforge_fingerprints"}

\* the records a batch answer carries
Records(r) ==
    CASE r.body.t = "empty" -> <<>>
      [] r.body.t = "list" -> r.body.v
      [] r.body.t = "obj" ->
            IF "exactMatches" \in DOMAIN r.body.v.data
            THEN r.body.v.data.exactMatches
            ELSE r.body.v.data

\* a batch request was answered after the store returned no document
EmptyLookup(tk) == Answered(tk) /\ tk.func \in BatchFuncs /\ tk.models = <<>>

Accepted(tk) ==
    IF tk.func = "modrinth_versions"
    THEN {k \in Range(ReqKeys(tk)) : re_match(VERSION_ID_LEN, k)}
    ELSE Range(ReqKeys(tk))

C3_OnlyMissingEnqueued ==
    \A t \in Tasks :
        LET tk == task[t]
        IN (/\ Answered(tk)
            /\ tk.func = "modrinth_versions"
            /\ tk.models # <<>>
            /\ Ids(tk.models) # Range(ReqKeys(tk)))
           => /\ EnqKeys(tk) \subseteq Range(ReqKeys(tk)) \ Ids(tk.models)
              /\ Records(tk.result) = tk.models
              /\ Trustable(tk.result) = "False"

SingleFuncs ==
    {"modrinth_project", "modrinth_version", "modrinth_file", "curseforge_mod",
     "curseforge_mod_file"}

\* the key a single-entity lookup asks for
LookupKey(tk) == IF tk.func = "curseforge_mod_file" THEN tk.args[2] ELSE tk.args[1]

\* a single-entity lookup has ended and the store held no record for its key
AbsentLookup(tk) == Done(tk) /\ tk.func \in SingleFuncs /\ tk.models = <<>>

\* C4: a single-entity lookup (modrinth_project, modrinth_version,
\* modrinth_file, curseforge_mod, curseforge_mod_file) whose record is absent
\* from the store enqueues that key and answers with an empty body, status 404
\* and Trustable: False; it never ends in a server error.
C4_AbsentIs404AndEnqueued ==
    \A t \in Tasks :
        AbsentLookup(task[t])
        => /\ IsResponse(task[t].result)
           /\ task[t].result.status_code = HTTP_NOT_FOUND
           /\ task[t].result.body = EmptyBody
           /\ Trustable(task[t].result) = "False"
           /\ EnqKeys(task[t]) = {LookupKey(task[t])}

\* a detail lookup has ended and found a record whose sync timestamp was older
\* than its kind's TTL when the handler ran
StaleLookup(tk) ==
    /\ Done(tk)
    /\ tk.func \in {"modrinth_project", "curseforge_mod"}
    /\ tk.models # <<>>
    /\ is_expired(tk.models[1], ExpireOf(tk.func), tk.at)

\* C5: a detail lookup (modrinth_project, curseforge_mod) that finds a record
\* whose sync timestamp is older than its kind's TTL still answers 200 with
\* that record and hands exactly one key, the record's, to the backfill queue.
C5_StaleReturnedAndEnqueuedOnce ==
    \A t \in Tasks :
        StaleLookup(task[t])
        => /\ IsResponse(task[t].result)
           /\ task[t].result.status_code = HTTP_OK
           /\ Cardinality(task[t].enq) = 1
           /\ EnqKeys(task[t]) \subseteq {task[t].args[1], task[t].models[1].id}

\* C6: after any interleaving of add_modrinth_*_to_queue calls of concurrent
\* tasks every queue holds each key at most once, and a call whose keys are
\* all pending already leaves the queues as they are: running a call a second
\* time changes nothing.
C6_SetUnionEnqueue ==
    /\ \A n \in QueueNames : \A k \in BagToSet(queue[n]) : CopiesIn(k, queue[n]) = 1
    /\ \A t \in Tasks :
          task[t].pc = "sadd"
          => LET once == call_add(task[t].func, task[t].args, queue_up, queue)
                 twice == call_add(task[t].func, task[t].args, queue_up, once.queue)
             IN /\ twice.queue = once.queue
                /\ Held(once.enq, queue) = once.enq => once.queue = queue

\* a task has handed a key to SADD that was pending already, and another task
\* has handed the same key
C6_Witness ==
    \E t, u \in Tasks :
        /\ t # u
        /\ Done(task[t]) /\ Done(task[u])
        /\ task[t].held # {}
        /\ task[t].held \cap task[u].enq # {}
        /\ \A e \in task[t].held : CopiesIn(e[2], queue[e[1]]) = 1

\* the length a key of a queue has to have
KeyLen(name) ==
    CASE name = "modrinth_version_ids" -> VERSION_ID_LEN
      [] name = "modrinth_hashes_sha1" -> SHA1_LEN
      [] name = "modrinth_hashes_sha512" -> SHA512_LEN

\* C7: add_modrinth_version_ids_to_queue and add_modrinth_hashes_to_queue let
\* only keys of the fixed length of their kind into a queue (8 for a version
\* id, 40 for sha1, 128 for sha512), add every key of that shape, and never
\* fail a batch for an invalid key.
C7_OnlyFixedLengthKeysEnter ==
    /\ \A n \in {"modrinth_version_ids", "modrinth_hashes_sha1", "modrinth_hashes_sha512"} :
          \A k \in BagToSet(queue[n]) : Len(k) = KeyLen(n)
    /\ \A t \in Tasks : Done(task[t]) => ~IsRaised(task[t].result)

\* C8: a lookup that has to enqueue while the queue backend is unreachable
\* still ends with a response, the 404 or partial answer it would give
\* otherwise, and not with an error.
C8_QueueFailureStillAnswers ==
    \A t \in Tasks :
        (Done(task[t]) /\ task[t].func \in {"modrinth_project", "modrinth_projects"})
        => /\ IsResponse(task[t].result)
           /\ task[t].models = <<>> => Trustable(task[t].result) = "False"

\* a key is pending in a queue in this state and pending in fewer copies, or
\* not at all, in the next
KeyRemoved ==
    \E n \in QueueNames : \E k \in BagToSet(queue[n]) :
        CopiesIn(k, queue'[n]) < CopiesIn(k, queue[n])

\* C9: no step of the API process, startup and shutdown included, removes a
\* pending key from a backfill queue: a key leaves a queue only in a step of
\* the external worker.
C9_CoreOnlyAdds == [][KeyRemoved => WorkerPop]_vars

----------------------------------------------------------------------------
(* The response cache: hits, misses and what is written *)

\* C11: with the cache enabled and no bypass, a request that finds an unexpired
\* entry for its key is answered from the cache and the handler is not invoked
\* for it (no store query, no enqueue, the queues untouched); the handler runs
\* only on a miss, and exactly once for that request
C11_HitSkipsHandler ==
    [][\A t \in Tasks :
          /\ (task[t].pc = "get" /\ task'[t].pc # "get") =>
                IF Live(cache, KeyOf(task[t]), now)
                THEN /\ task'[t].pc = "idle" /\ task'[t].via = "hit"
                     /\ task'[t].calls = 0
                     /\ task'[t].enq = {} /\ task'[t].models = <<>>
                     /\ queue' = queue
                ELSE task'[t].pc = "func" /\ task'[t].via = "miss"
          /\ (Done(task'[t]) /\ task'[t].via = "miss") => task'[t].calls = 1
          /\ task'[t].calls > 0 => task'[t].via = "miss"]_vars

\* one request answered by a hit without a call, another by a miss with one call
C11_Witness ==
    \E t, u \in Tasks :
       /\ Done(task[t]) /\ task[t].via = "hit" /\ task[t].calls = 0
       /\ IsResponse(task[t].result)
       /\ Done(task[u]) /\ task[u].via = "miss" /\ task[u].calls = 1
       /\ KeyOf(task[t]) = KeyOf(task[u])

\* C12: the cache never holds an entry whose stored status code is >= 400; a
\* handler result with status 404 is the caller's answer and is not written
C12_NoErrorCached ==
    /\ \A k \in DOMAIN cache :
          /\ loads(cache[k].value).value.status_code < HTTP_ERROR_FROM
          /\ written[k].status_code < HTTP_ERROR_FROM
    /\ \A t \in Tasks :
          (task[t].calls > 0 /\ IsResponse(task[t].result)
             /\ task[t].result.status_code >= HTTP_ERROR_FROM) =>
                task[t].pc = "idle"

\* a miss answered with the handler's 404 while the cache holds nothing for
\* the key
C12_Witness ==
    \E t \in Tasks :
       /\ Done(task[t]) /\ task[t].via = "miss"
       /\ IsResponse(task[t].result)
       /\ task[t].result.status_code = HTTP_NOT_FOUND
       /\ KeyOf(task[t]) \notin DOMAIN cache


\* C13: a call made while the cache is disabled, or with force=True, goes
\* straight to the handler: the wrapper neither reads nor writes the cache for
\* it and the handler is invoked once; the enabled bit is read at every call
C13_BypassCallsHandler ==
    [][\A t \in Tasks :
          /\ (task[t].pc = "idle" /\ task'[t].pc # "idle"
                /\ (task'[t].force \/ ~enabled)) =>
                   task'[t].pc = "func" /\ task'[t].via = "direct"
          /\ (task[t].via = "direct" /\ task[t].pc = "func" /\ task'[t] # task[t]) =>
                /\ Done(task'[t]) /\ task'[t].calls = 1
                /\ cache' = cache]_vars

\* after a runtime disable two identical requests without force have both
\* invoked the handler, while the cache still holds a live entry for their key
C13_Witness ==
    /\ ~enabled
    /\ \E t, u \in Tasks :
          /\ t # u
          /\ KeyOf(task[t]) = KeyOf(task[u])
          /\ Live(cache, KeyOf(task[t]), now)
          /\ \A x \in {t, u} :
                /\ Done(task[x]) /\ ~task[x].force
                /\ task[x].via = "direct" /\ task[x].calls = 1
                /\ IsResponse(task[x].result)


\* C14: a result that is not a Response, or a Response whose Cache-Control
\* holds no-cache, is the caller's answer as the function returned it, and
\* nothing is written to the cache for the key of the call
C14_UncacheableReturnedAsIs ==
    [][\A t \in Tasks :
          /\ (task[t].pc = "func" /\ task'[t] # task[t]
                /\ (~IsResponse(task'[t].result) \/ ForbidsCaching(task'[t].result))) =>
                   /\ Done(task'[t])
                   /\ task'[t].result \in Results
                   /\ cache' = cache
          /\ \A k \in DOMAIN cache' :
                IsResponse(written'[k]) /\ ~ForbidsCaching(written'[k])]_vars

\* a miss answered with a dict and a miss answered with a no-cache Response,
\* while the cache holds nothing for their key
C14_Witness ==
    \E t, u \in Tasks :
       /\ Done(task[t]) /\ task[t].via = "miss" /\ task[t].result = PlainDict
       /\ Done(task[u]) /\ task[u].via = "miss" /\ IsResponse(task[u].result)
       /\ ForbidsCaching(task[u].result)
       /\ KeyOf(task[t]) \notin DOMAIN cache
       /\ KeyOf(task[u]) \notin DOMAIN cache


\* the requests for key k that went through a miss, whose handler returned a
\* response the wrapper stores, and that have completed
Writers(k) ==
    {t \in Tasks : /\ Done(task[t]) /\ KeyOf(task[t]) = k
                   /\ cacheable(task[t].via, task[t].result)}

\* C15: requests for the same key that miss together may each call the
\* handler and each write; a write stores the whole encoded response of its
\* own handler call, and once all of them have completed the entry is the
\* encoded response of one of them, never parts of two
C15_LastWriterWins ==
    [][/\ \A t \in Tasks :
             (task[t].pc = "set" /\ task'[t].pc # "set") =>
                cache'[KeyOf(task[t])].value = to_set(task[t].result)
       /\ \A k \in DOMAIN cache' :
             LET done == {t \in Tasks : /\ Done(task'[t]) /\ KeyOf(task'[t]) = k
                                        /\ cacheable(task'[t].via, task'[t].result)}
             IN done = Tasks =>
                   cache'[k].value \in {to_set(task'[t].result) : t \in done}]_vars

\* two requests for one key both missed, called the handler and wrote, with
\* different responses; the entry is the response of one of them
C15_Witness ==
    \E k \in DOMAIN cache : \E t, u \in Writers(k) :
       /\ task[t].result # task[u].result
       /\ task[t].calls = 1 /\ task[u].calls = 1
       /\ cache[k].value = to_set(task[u].result)
       /\ cache[k].value # to_set(task[t].result)


----------------------------------------------------------------------------
(* The response classes *)

Structured(tk) == tk.func \in {"BaseResponse", "TrustableResponse"}

\* C16: every structured response with status 200 carries an ETag that is the
\* hash of its encoded body and status code, and a structured response with
\* another status carries no ETag
C16_EtagOn200Only ==
    \A t \in Tasks :
       Structured(task[t]) =>
          LET r == task[t].result
          IN IF r.status_code = HTTP_OK
             THEN /\ "Etag" \in DOMAIN r.headers
                  /\ r.headers["Etag"] = generate_etag(r.body, r.status_code)
             ELSE "Etag" \notin DOMAIN r.headers

\* C17: a response built by TrustableResponse carries Trustable: "True" when
\* it was built with trustable=True and "False" otherwise, whatever was built
\* before it; an UncachedResponse carries Trustable: "False"
C17_TrustableHeader ==
    \A t \in Tasks :
       /\ task[t].func = "TrustableResponse" =>
             /\ "Trustable" \in DOMAIN task[t].result.headers
             /\ task[t].result.headers["Trustable"] =
                   (IF task[t].args.trustable THEN "True" ELSE "False")
       /\ task[t].func = "UncachedResponse" =>
             /\ "Trustable" \in DOMAIN task[t].result.headers
             /\ task[t].result.headers["Trustable"] = "False"

\* a response built with trustable=False from the default headers dict that
\* an earlier trustable=True response wrote into, beside an UncachedResponse
C17_Witness ==
    /\ "Trustable" \in DOMAIN defaults.TrustableResponse
    /\ \E t, u \in Tasks :
          /\ task[t].func = "TrustableResponse" /\ task[t].args.headers = <<>>
          /\ ~task[t].args.trustable
          /\ task[t].result.headers["Trustable"] = "False"
          /\ task[t].result.status_code = HTTP_OK
          /\ task[u].func = "UncachedResponse"
          /\ task[u].result.headers["Trustable"] = "False"


----------------------------------------------------------------------------
(* The file routes *)

FileFuncs == {"get_modrinth_file", "get_curseforge_file"}

\* the host a url points to: the part after its scheme
Host(url) == url[2]

\* the response is a redirect to the given host
RedirectsTo(r, host) ==
    /\ IsResponse(r)
    /\ r.status_code \in {HTTP_MOVED_PERMANENTLY, HTTP_FOUND}
    /\ "location" \in DOMAIN r.headers
    /\ r.headers["location"][1] \in {"http://", "https://"}
    /\ Host(r.headers["location"]) = host

\* the origin host of the provider the request is for
OriginOf(tk) ==
    IF tk.func = "get_modrinth_file" THEN "cdn.modrinth.com" ELSE "edge.forgecdn.net"

\* the store holds no file for the request
FileAbsent(tk) ==
    IF tk.func = "get_modrinth_file"
    THEN \A f \in Range(store.File) :
            ~(f.project_id = tk.args[1] /\ f.version_id = tk.args[2]
                /\ f.filename = tk.args[3])
    ELSE \A f \in Range(store.CFFile) :
            ~(f.id = concat_fileid(tk.args[1], tk.args[2]) /\ f.fileName = tk.args[3])

\* a key was enqueued for the entity that owns the requested file: the
\* project of a Modrinth file; for a CurseForge file, whose mod the route
\* does not know, any key at all
OwnerEnqueued(tk) ==
    IF tk.func = "get_modrinth_file"
    THEN <<"modrinth_project_ids", tk.args[1]>> \in tk.enq
    ELSE tk.enq # {}

\* this step gives task t its answer: the handler returns, or the cache hits
Answers(t) ==
    /\ task'[t].func \in FileFuncs
    /\ \/ task[t].pc = "func" /\ task'[t].pc # "func"
       \/ task[t].pc = "get" /\ task'[t].pc = "idle"

\* C18: with file_cdn on and the mode open93home, a file request whose file
\* the store does not hold is answered with a redirect to the origin host and
\* the key of the owning entity is enqueued
C18_AbsentFileFallsBack ==
    [][\A t \in Tasks :
          (Answers(t) /\ config.file_cdn
             /\ config.file_cdn_redirect_mode = "open93home" /\ FileAbsent(task'[t])) =>
                /\ RedirectsTo(task'[t].result, OriginOf(task'[t]))
                /\ OwnerEnqueued(task'[t])]_vars

\* C19: with file_cdn off every file request is answered with a redirect to
\* the origin host, the store is not queried and nothing is enqueued
C19_FeatureOffIsOrigin ==
    [][\A t \in Tasks :
          (Answers(t) /\ ~config.file_cdn) =>
             /\ RedirectsTo(task'[t].result, OriginOf(task'[t]))
             /\ ~task'[t].queried
             /\ task'[t].enq = {}]_vars

\* C20: with file_cdn on and the mode pysio every file request is answered
\* with a redirect to the partner host, the store is not queried and nothing is
\* enqueued
C20_PysioIsPartner ==
    [][\A t \in Tasks :
          (Answers(t) /\ config.file_cdn /\ config.file_cdn_redirect_mode = "pysio") =>
             /\ RedirectsTo(task'[t].result, Host(config.pysio_endpoint))
             /\ ~task'[t].queried
             /\ task'[t].enq = {}]_vars

\* this step is the handler of task t returning
Runs(t) ==
    /\ task'[t].func \in FileFuncs
    /\ task[t].pc = "func" /\ task'[t].pc # "func"

\* the lookup of the request found a file that is over the size limit or not
\* marked as cached
FoundIneligible(tk) ==
    /\ tk.models # <<>>
    /\ LET file == tk.models[1]
           size == IF tk.func = "get_modrinth_file" THEN file.size ELSE file.fileLength
       IN size > config.max_file_size \/ ~file.file_cdn_cached

\* C21: when the lookup of a file route finds a file that is over the
\* configured maximum size or not marked as cached, the answer is a redirect to
\* the origin host and nothing is enqueued, whatever the redirect mode
C21_IneligibleIsOrigin ==
    [][\A t \in Tasks :
          (Runs(t) /\ FoundIneligible(task'[t])) =>
             /\ RedirectsTo(task'[t].result, OriginOf(task'[t]))
             /\ task'[t].enq = {}
             /\ queue' = queue]_vars

\* an oversized Modrinth file and an uncached CurseForge file were looked up
\* in the open93home mode and answered with the origin
C21_Witness ==
    /\ task[1].pc \in {"set", "idle"}
    /\ task[1].func \in FileFuncs
    /\ FoundIneligible(task[1])
    /\ config.file_cdn /\ config.file_cdn_redirect_mode = "open93home"
    /\ RedirectsTo(task[1].result, OriginOf(task[1]))

\* the lookup of the request found a file within the size limit and marked
\* as cached
FoundEligible(tk) ==
    /\ tk.models # <<>>
    /\ LET file == tk.models[1]
           size == IF tk.func = "get_modrinth_file" THEN file.size ELSE file.fileLength
       IN size <= config.max_file_size /\ file.file_cdn_cached

\* the SHA-1 of the file the lookup found: hashes.sha1 of a Modrinth file,
\* the value of the hash with algo 1 of a CurseForge file
Sha1Of(tk) ==
    LET file == tk.models[1]
    IN IF tk.func = "get_modrinth_file"
       THEN file.hashes.sha1
       ELSE (CHOOSE i \in DOMAIN file.hashes : file.hashes[i].algo = 1).value

\* C22: when the lookup of a file route finds a file within the size limit
\* and marked as cached while the mode is open93home, the answer is a redirect
\* to the alternate host whose path is the SHA-1 of the file, on the Modrinth
\* route and on the CurseForge route
C22_EligibleGoesToAlternate ==
    [][\A t \in Tasks :
          (Runs(t) /\ FoundEligible(task'[t])
             /\ config.file_cdn_redirect_mode = "open93home") =>
                /\ RedirectsTo(task'[t].result, Host(config.open93home_endpoint))
                /\ task'[t].result.headers["location"] =
                      config.open93home_endpoint \o <<"/", Sha1Of(task'[t])>>]_vars

\* C23: every request to a file route is answered with a redirect, a status
\* from 300 to 400 with a location header, whatever the flag, the mode and the
\* state of the file in the store
C23_AlwaysRedirect ==
    [][\A t \in Tasks :
          Answers(t) =>
             /\ IsResponse(task'[t].result)
             /\ task'[t].result.status_code >= 300
             /\ task'[t].result.status_code <= 400
             /\ "location" \in DOMAIN task'[t].result.headers]_vars

\* C24: for each provider the age in the Cache-Control header of a redirect
\* to the alternate host is greater than the age in the header of a redirect
\* to the origin
C24_AlternateOutlivesOrigin ==
    \A t \in Tasks, u \in Tasks :
       (/\ task[t].func \in FileFuncs /\ task[u].func = task[t].func
        /\ task[t].args = <<"open93home">> /\ task[u].args = <<"origin">>) =>
          age_of(task[t].result.headers["Cache-Control"]) >
             age_of(task[u].result.headers["Cache-Control"])

\* the answer the route gives to the request under the configuration and the
\* store of the current state
Selected(tk) == call_func(tk.func, tk.args, store, queue, queue_up).response

\* C25: every file request is answered with the redirect that the
\* configuration in force at the time of the answer selects for the file, also
\* after the flag or the mode was changed while the application runs
C25_AnswerFollowsConfig ==
    [][\A t \in Tasks : Answers(t) => task'[t].result = Selected(task'[t])]_vars

\* C26: the expiry of a cache entry, when it is written, is the time of the
\* write plus the expiry the configuration holds at that time for the route:
\* the expiry of the entity kind, or the one of the redirect mode
C26_ExpiryFollowsConfig ==
    [][\A t \in Tasks :
          (task[t].pc = "set" /\ task'[t].pc = "idle") =>
             cache'[KeyOf(task[t])].expire_at =
                {now + expire_argument(task[t].func, config)}]_vars

\* C27: in modrinth_projects a requested key that matches a returned project
\* by its slug counts as found: on a partial result it is not enqueued
C27_SlugCountsAsFound ==
    \A t \in Tasks :
        LET tk == task[t]
        IN (/\ Answered(tk)
            /\ tk.func = "modrinth_projects"
            /\ 0 < Len(tk.models) /\ Len(tk.models) < Len(ReqKeys(tk)))
           => \A k \in Range(ReqKeys(tk)) :
                 (\E d \in Range(tk.models) : d.slug = k) => k \notin EnqKeys(tk)

FingerprintFuncs == {"curseforge_fingerprints", "curseforge_fingerprints_432"}

\* the fingerprints of the store
Present == Ids(store.Fingerprint)

\* C28: the answer of a fingerprint route partitions the requested
\* fingerprints: exactFingerprints lists the requested fingerprints the store
\* holds, each once, unmatchedFingerprints the requested fingerprints it does
\* not hold, exactMatches has one entry per exact fingerprint, and the keys
\* enqueued are the unmatched fingerprints and nothing else
C28_FingerprintsPartition ==
    \A t \in Tasks :
        LET tk == task[t]
            req == Range(ReqKeys(tk))
            data == tk.result.body.v.data
        IN (Answered(tk) /\ tk.func \in FingerprintFuncs)
           => /\ Range(data.exactFingerprints) = req \cap Present
              /\ Len(data.exactFingerprints) = Cardinality(req \cap Present)
              /\ Range(data.unmatchedFingerprints) = req \ Present
              /\ Len(data.exactMatches) = Len(data.exactFingerprints)
              /\ tk.enq = {<<"curseforge_fingerprints", k>> : k \in req \ Present}
              /\ \A k \in req \ Present : CopiesIn(k, queue["curseforge_fingerprints"]) = 1

\* a request for a stored and an unknown fingerprint was answered with the one
\* as exact, the other as unmatched and enqueued
C28_Witness ==
    \E t \in Tasks :
        /\ Answered(task[t]) /\ task[t].func \in FingerprintFuncs
        /\ Range(ReqKeys(task[t])) \cap Present # {}
        /\ Range(ReqKeys(task[t])) \ Present # {}
        /\ Len(task[t].result.body.v.data.exactMatches) = 1
        /\ task[t].enq # {}

\* the requested hashes whose file, looked up under the requested algorithm,
\* and whose version are in the store
Resolved(tk) ==
    {h \in Range(tk.args[1]) :
        \E f \in Range(store.File) :
           /\ (IF tk.args[2] = "sha1" THEN f.hashes.sha1 ELSE f.hashes.sha512) = h
           /\ \E v \in Range(store.Version) : v.id = f.version_id}

\* C29: the answer of POST /version_files is a map whose keys are the
\* requested hashes whose file and version the store holds; when every
\* requested hash is resolved it has as many keys as hashes were requested
C29_KeyedByRequestedHash ==
    \A t \in Tasks :
        LET tk == task[t]
        IN (/\ Answered(tk) /\ tk.func = "modrinth_files"
            /\ tk.result.status_code = HTTP_OK)
           => /\ DOMAIN tk.result.body.v = Resolved(tk)
              /\ (NoRepeat(tk) /\ Resolved(tk) = Range(tk.args[1])) =>
                    Cardinality(DOMAIN tk.result.body.v) = Len(tk.args[1])

\* this step ends the handler of task t with the exception of a store query
StoreFails(t) ==
    /\ task[t].pc = "func" /\ task'[t].pc # "func"
    /\ task'[t].store_error

\* C30 as stated: when a store query of a handler fails, the request ends
\* with the exception, which is neither a 404 nor any other response; no key
\* is enqueued and nothing is written to the response cache
C30_StoreFailureSurfaced ==
    [][\A t \in Tasks :
          StoreFails(t) =>
             /\ task'[t].result = StoreError
             /\ ~IsResponse(task'[t].result)
             /\ task'[t].pc = "idle"
             /\ cache' = cache
             /\ task'[t].enq = {}
             /\ queue' = queue]_vars

\* the hashes a request of modrinth_files names that no file of the store has
AbsentHashes(tk) ==
    IF tk.func = "modrinth_files" /\ tk.models # <<>>
    THEN {<<"modrinth_hashes_" \o tk.args[2], h>> :
            h \in {x \in Range(tk.args[1]) :
                     \A f \in Range(store.File) :
                        (IF tk.args[2] = "sha1" THEN f.hashes.sha1
                                                ELSE f.hashes.sha512) # x}}
    ELSE {}

\* C30, amended: when a store query of a handler fails, the request ends with
\* the exception, which is neither a 404 nor any other response, and nothing
\* is written to the response cache; no key is enqueued for the query that
\* failed: the only keys enqueued by the request are the hashes that an
\* earlier query of modrinth_files, which succeeded, did not find
C30_StoreFailureSurfacedAfterLookup ==
    [][\A t \in Tasks :
          StoreFails(t) =>
             /\ task'[t].result = StoreError
             /\ ~IsResponse(task'[t].result)
             /\ task'[t].pc = "idle"
             /\ cache' = cache
             /\ task'[t].enq \subseteq AbsentHashes(task'[t])
             /\ \A n \in QueueNames :
                   BagToSet(queue'[n]) \ BagToSet(queue[n]) \subseteq
                      {e[2] : e \in {x \in task'[t].enq : x[1] = n}}]_vars

\* a lookup of a project ended with the exception of the store and left no
\* entry in the cache, and a request of modrinth_files ended with it after the
\* hash its first query did not find was enqueued
C30_Witness ==
    /\ task[1].pc = "idle" /\ task[1].func = "modrinth_project"
    /\ task[1].store_error /\ task[1].result = StoreError
    /\ KeyOf(task[1]) \notin DOMAIN cache
    /\ task[2].pc = "idle" /\ task[2].func = "modrinth_files"
    /\ task[2].store_error /\ task[2].result = StoreError
    /\ task[2].enq # {}

\* this step is the backend.set of task t
Sets(t) == task[t].pc = "set" /\ task'[t].pc = "idle"

\* C31: no entry is written to the cache backend while the enabled flag of the
\* cache is false, also when the cache was disabled by a configuration change
\* after the request had passed the enabled test
C31_NoWriteWhileDisabled ==
    [][\A t \in Tasks : Sets(t) => enabled]_vars

----------------------------------------------------------------------------
(* Changes of the configuration file while the application runs *)

\* what the configuration file is changed to
ConfigFiles ==
    {JsonFile([DefaultConfig EXCEPT !.redis_cache = b]) : b \in BOOLEAN}
        \cup {NotJsonFile, BadFieldFile, MissingFile}

NextWatch ==
    \/ FileChange(ConfigFiles)
    \/ WatchYields
    \/ WatcherValidates
    \/ WatcherReloads
    \/ WatcherReloadsAgain
    \/ \E i \in DOMAIN callback :
          \/ CallbackLoads(i)
          \/ CallbackBranches(i)
          \/ CallbackTests(i)
          \/ CallbackToggles(i)

SpecWatch == InitCache /\ [][NextWatch]_vars

\* the watcher has processed every change and every callback thread it
\* started has finished
AllCallbacksFinished ==
    /\ watcher.pc = "watch"
    /\ ~watcher.pending
    /\ callback # <<>>
    /\ \A i \in DOMAIN callback : callback[i].pc = "done"

\* C32: once the watcher has processed the changes of the MCIM configuration
\* file and all the callback threads it started have finished, the enabled flag
\* of the cache equals redis_cache of the configuration loaded last
C32_EnabledFollowsLatest ==
    AllCallbacksFinished => enabled = config.redis_cache

\* this step is the validation of a file the model class does not accept
ValidatesInvalid ==
    /\ watcher.pc = "validate"
    /\ watcher'.pc # "validate"
    /\ config_file.kind # "json"

\* this step starts a callback thread
StartsCallback == Len(callback') > Len(callback)

\* C37: when the watcher validates a changed configuration file and the
\* content fails validation, the loaded configuration stays as it is, no
\* callback is started and the change is dropped; a callback is started only in
\* a step in which the configuration was reloaded successfully from the file
C37_InvalidChangeIsDropped ==
    [][/\ ValidatesInvalid =>
             config' = config /\ callback' = callback /\ watcher'.pc = "watch"
       /\ StartsCallback =>
             load(config_file).raised = "" /\ config' = load(config_file).config]_vars

\* an invalid file was validated and dropped, and earlier a valid change has
\* started a callback
C37_Witness ==
    /\ watcher.pc = "watch"
    /\ watcher.seen \in {"not_json", "bad_field", "missing"}
    /\ callback # <<>>

----------------------------------------------------------------------------
(* A missing record becomes visible when the worker has written it *)

\* the store holds a project that the id or slug names
ProjectHeld(st, idslug) ==
    find(st.Project, LAMBDA d : d.id = idslug \/ d.slug = idslug) # <<>>

\* r answers the request for idslug with the record, marked trustable
AnswersRecord(r, idslug) ==
    /\ IsResponse(r)
    /\ r.status_code = HTTP_OK
    /\ Trustable(r) = "True"
    /\ r.body.t = "obj"
    /\ idslug \in {r.body.v.id, r.body.v.slug}

\* C33: while the store holds no record for a key the response cache holds no
\* entry for the request of that key (a not-found answer is never stored), so
\* the first cache read after the worker has written the record misses and the
\* handler is invoked; every request whose cache read or handler runs once the
\* record is in the store is answered with the record and Trustable: True
C33_BackfilledRecordIsServed ==
    [][\A t \in Tasks :
          task[t].func = "modrinth_project" =>
             LET idslug == task[t].args[1]
                 key == KeyOf(task[t])
             IN /\ ~ProjectHeld(store, idslug) => key \notin DOMAIN cache
                /\ (~ProjectHeld(store, idslug) /\ ProjectHeld(store', idslug)) =>
                      key \notin DOMAIN cache'
                /\ (ProjectHeld(store, idslug) /\ task[t].pc = "get"
                      /\ task'[t].pc # "get") =>
                      \/ task'[t].pc = "func" /\ ~Live(cache, key, now)
                      \/ task'[t].pc = "idle" /\ AnswersRecord(task'[t].result, idslug)
                /\ (ProjectHeld(store, idslug) /\ task[t].pc = "func"
                      /\ task'[t].pc # "func") =>
                      task'[t].calls = 1 /\ AnswersRecord(task'[t].result, idslug)]_vars

\* one request was answered not found, the worker has written the record, and
\* another request for the same key missed the cache and was answered by a
\* call of the handler with the record
C33_Witness ==
    \E t, u \in Tasks :
       /\ Done(task[t]) /\ IsResponse(task[t].result)
       /\ task[t].result.status_code = HTTP_NOT_FOUND
       /\ Done(task[u]) /\ task[u].via = "miss" /\ task[u].calls = 1
       /\ KeyOf(task[u]) = KeyOf(task[t])
       /\ AnswersRecord(task[u].result, task[u].args[1])

----------------------------------------------------------------------------
(* Batch requests through the response cache while the worker fills the store *)

\* the request that names every record of the pool, in the order of the pool
IdList(pool) == [i \in 1..Len(pool) |-> pool[i].id]

InitBatch ==
    /\ queue = EmptyQueues
    /\ queue_up = TRUE
    /\ cache = NoCache
    /\ enabled = TRUE
    /\ now = 0
    /\ task = InitTasks
    /\ written = NoCache
    /\ app = "running"
    /\ config = [DefaultConfig EXCEPT !.redis_cache = enabled]
    /\ defaults = NoDefaults
    /\ imported = config
    /\ Quiet
    /\ \E ps \in SubSeqs(ProjectPool), vs \in SubSeqs(VersionPool) :
          store = [EmptyStore EXCEPT !.Project = ps, !.Version = vs]

NextBatch ==
    \/ Request(1, "modrinth_projects", <<IdList(ProjectPool)>>)
    \/ Request(2, "modrinth_versions", <<IdList(VersionPool)>>)
    \/ \E t \in {1, 2} :
          \/ CacheGet(t)
          \/ Handler(t)
          \/ CacheSet(t)
    \/ WorkerSync("Project", ProjectPool)
    \/ WorkerSync("Version", VersionPool)

SpecBatch == InitBatch /\ [][NextBatch]_vars

\* the batch request of the task names a key, and the store holds a record for
\* every key it names
StoreComplete(st, tk) ==
    tk.args[1] # <<>> /\ \A i \in 1..Len(tk.args[1]) :
       IF tk.func = "modrinth_projects"
       THEN ProjectHeld(st, tk.args[1][i])
       ELSE tk.args[1][i] \in Ids(st.Version)

\* r answers the batch request with a record for every key, marked trustable
AnswersAll(r, tk) ==
    /\ IsResponse(r)
    /\ r.status_code = HTTP_OK
    /\ Trustable(r) = "True"
    /\ r.body.t = "list"
    /\ \A i \in 1..Len(tk.args[1]) :
          \E d \in Range(r.body.v) :
             tk.args[1][i] = d.id
                \/ (tk.func = "modrinth_projects" /\ tk.args[1][i] = d.slug)

\* this step gives the batch request of task t its answer
AnswersBatch(t) ==
    /\ task[t].func \in {"modrinth_projects", "modrinth_versions"}
    /\ \/ task[t].pc = "func" /\ task'[t].pc # "func"
       \/ task[t].pc = "get" /\ task'[t].pc = "idle"

\* no key occurs twice in the list
NoRepeats(ids) == \A i, j \in 1..Len(ids) : ids[i] = ids[j] => i = j

\* C34: a request of modrinth_projects or modrinth_versions (of keys that
\* differ from one another) that is answered when the store holds a record for
\* every one of its keys is answered Trustable: True with all the records, from
\* the cache or from the handler
C34_CompleteStoreAnswersAll ==
    [][\A t \in Tasks :
          (AnswersBatch(t) /\ NoRepeats(task[t].args[1])
              /\ StoreComplete(store, task[t])) =>
             AnswersAll(task'[t].result, task[t])]_vars

----------------------------------------------------------------------------
(* The Trustable header of a batch answer *)

\* the key is matched by a record of the answer: by its id, or by its slug in
\* modrinth_projects
Matched(tk, k) ==
    \E d \in Range(tk.models) :
       d.id = k \/ (tk.func = "modrinth_projects" /\ d.slug = k)

\* C35: a batch endpoint that is asked for at least one key answers
\* Trustable: True exactly when every requested key is matched by a record of
\* the answer, also when a key is repeated in the request and when a key
\* matches a project by its slug
C35_TrustableIffAllMatched ==
    \A t \in Tasks :
        LET tk == task[t]
        IN (/\ Answered(tk)
            /\ tk.func \in {"modrinth_projects", "curseforge_mods"}
            /\ ReqKeys(tk) # <<>>)
           => (Trustable(tk.result) = "True"
                 <=> \A k \in Range(ReqKeys(tk)) : Matched(tk, k))

----------------------------------------------------------------------------
(* The headers of a response built without a headers argument *)

\* the response the constructor of the task builds from its own arguments and
\* an empty headers dict
BuiltAlone(tk) ==
    IF tk.func = "BaseResponse"
    THEN BaseResponse(tk.args.content, tk.args.status_code, NoHeaders)
    ELSE TrustableResponse(tk.args.status_code, tk.args.content, NoHeaders,
                           tk.args.trustable)

\* C36: the headers of a response built by BaseResponse or TrustableResponse
\* without a headers argument are those that follow from the content, the
\* status code and the trustable flag of that call; no header written while an
\* earlier response was built appears in it
C36_HeadersFromOwnCall ==
    \A t \in Tasks :
       (Structured(task[t]) /\ task[t].args.headers = <<>>) =>
          task[t].result.headers = BuiltAlone(task[t]).headers

----------------------------------------------------------------------------
(* The sync functions of the worker *)

InitSync ==
    /\ InitDirect
    /\ \E ps \in SubSeqs(ProjectPool), ms \in SubSeqs(ModPool) :
          store = [EmptyStore EXCEPT !.Project = ps, !.Mod = ms]

NextSync ==
    \/ SYNC_multi_projects_all_version({"PA", "PB"})
    \/ SYNC_multi_mods_all_files(ModIds)
    \/ SyncNextMod({0, PAGE_SIZE + 1})
    \/ SyncPage
    \/ SyncPagesEnd
    \/ Tick

SpecSync == InitSync /\ [][NextSync]_vars

\* the stored record of the entity is within its TTL
WithinTTL(coll, id, expire) ==
    \E d \in Range(coll) : d.id = id /\ ~is_expired(d, expire, now)

\* C38: a multi-entity sync fetches from the upstream no entity whose stored
\* record is within its TTL at the call, whatever the list of ids, repeated
\* ids included
C38_FreshIsNotFetched ==
    [][/\ (sync.pc = "idle" /\ sync'.func = "sync_multi_projects_all_version"
             /\ sync' # sync) =>
             \A id \in Range(sync'.fetched) :
                ~WithinTTL(store.Project, id, imported.expire_second.modrinth.project)
       /\ (sync.pc = "idle" /\ sync'.func = "sync_multi_mods_all_files"
             /\ sync' # sync) =>
             \A id \in Range(sync'.todo) :
                ~WithinTTL(store.Mod, id, imported.expire_second.curseforge.mod)]_vars

----------------------------------------------------------------------------
(* The pages of files sync_mod_all_files requests *)

NextPages ==
    \/ SYNC_mod_all_files(ModIds, 0..MaxTotalCount)
    \/ SyncPage
    \/ SyncPagesEnd
    \/ Tick

SpecPages == InitSync /\ [][NextPages]_vars

\* C39: the pages of files are requested at index 0, pageSize, 2 * pageSize
\* and so on, and after the first page no page is requested that starts at or
\* beyond the totalCount the upstream reports
C39_NoPageBeyondTotal ==
    /\ \A i \in 1..Len(sync.requested) : sync.requested[i] = (i - 1) * PAGE_SIZE
    /\ \A i \in 2..Len(sync.requested) : sync.requested[i] < sync.page.totalCount

====
